---- MODULE Spec2Model ----
(***************************************************************************)
(* A model of promptctl: the license validator and the feature gate        *)
(* (licensing.py, gates.py), the prompt versioner (prompt/versioner.py),   *)
(* the text chunker and the map-reduce summarizer (doc/chunker.py).         *)
(*                                                                         *)
(* Python strings are sequences of one-character strings, so that split,   *)
(* strip, upper and slicing are computed as the code computes them.        *)
(* Each component has its own specification (SpecVersioner, SpecGate,      *)
(* SpecChunk, SpecMapReduce, SpecSummarize, SpecLicense, SpecLint,         *)
(* SpecConcurrentSave, SpecCost) over the shared variables; a              *)
(* specification leaves the variables of the other components at their     *)
(* initial values.                                                         *)
(***************************************************************************)
EXTENDS Integers, Sequences, FiniteSets, TLC

VARIABLES
    license_env,      \* os.environ["PROMPTCTL_LICENSE"], <<>> when unset
    templates,        \* the template files: path -> content, or NoFile
    dirs,             \* the snapshot directories that exist under prompts/
    store,            \* name -> (version number -> content of v<N>.yaml)
    edits,            \* how many times the user rewrote or removed a template
    result,           \* what the most recent operation returned or raised
    returned,         \* name -> the versions successful saves returned, in order
    savers,           \* the concurrent save_version calls: process -> its position and locals
    calls,            \* the executions of gated operations, in order
    sent,             \* the generation calls issued (client.send_message), in order
    CHUNK_CHAR_SIZE, OVERLAP_CHARS,    \* chunker.py's module globals
    ck_text, ck_size, ck_overlap,      \* chunk_text's arguments, defaults filled in
    ck_start, ck_chunks, ck_offsets,   \* its locals; ck_offsets: start of each chunk
    ck_pc,            \* "idle" | "call" | "loop" | "done"
    mr_text, mr_model, mr_word_count,  \* map_reduce_summarize's arguments
    mr_chunks, total_input, total_output, chunk_summaries,   \* its locals
    mr_usages,        \* the token usage each generation call of it returned
    mr_pc             \* "idle" | "call" | "map" | "reduce" | "done" | "failed"

vars == <<license_env, templates, dirs, store, edits, result, returned, savers, calls, sent,
          CHUNK_CHAR_SIZE, OVERLAP_CHARS,
          ck_text, ck_size, ck_overlap, ck_start, ck_chunks, ck_offsets, ck_pc,
          mr_text, mr_model, mr_word_count, mr_chunks, total_input, total_output,
          chunk_summaries, mr_usages, mr_pc>>

versioner_vars == <<templates, dirs, store, edits, returned, savers>>
gate_vars == <<calls, sent>>
mr_vars == <<mr_text, mr_model, mr_word_count, mr_chunks, total_input, total_output,
             chunk_summaries, mr_usages, mr_pc>>
chunk_vars == <<CHUNK_CHAR_SIZE, OVERLAP_CHARS, ck_text, ck_size, ck_overlap,
                ck_start, ck_chunks, ck_offsets, ck_pc>>

(***************************************************************************)
(* Bounds of the model.                                                    *)
(***************************************************************************)
MaxVersion == 11      \* saves are followed until a name holds this many snapshots
MaxEdits == 1         \* template rewrites and removals that are followed
MaxLoad == 2          \* the version numbers load is asked for
MaxCalls == 3         \* executions of gated operations that are followed
MaxTextLen == 5       \* the longest text chunk_text is given
MaxChunkSize == 3     \* the largest chunk_size it is given
MaxOverlap == 4       \* the largest overlap it is given
MaxChunks == 7        \* appends of one chunk_text call that are followed
MaxDocLen == 4        \* the longest document map_reduce_summarize is given
MaxDocScale == 2      \* summarize: document lengths up to this multiple of the ceiling
MaxDocExtra == 4      \* summarize: characters beyond a multiple of the ceiling
MaxLines == 3         \* lint: lines of the generated one-level files
MaxSavers == 3        \* processes that run save_version concurrently
MaxSaves == 3         \* save_version calls of the concurrent processes that are followed

(***************************************************************************)
(* Python helpers.                                                         *)
(***************************************************************************)
None == "None"
NoFile == "NoFile"

\* max(xs, default=d)
Max(S, d) == IF S = {} THEN d ELSE CHOOSE m \in S : \A x \in S : x <= m

Min(S) == CHOOSE m \in S : \A x \in S : m <= x

\* sorted(xs) for a collection of distinct integers
RECURSIVE sorted(_)
sorted(S) == IF S = {} THEN <<>> ELSE <<Min(S)>> \o sorted(S \ {Min(S)})

\* str.upper(), on the characters a key can hold
UpperChar(c) ==
    CASE c = "a" -> "A" [] c = "b" -> "B" [] c = "c" -> "C" [] c = "d" -> "D"
      [] c = "e" -> "E" [] c = "f" -> "F" [] OTHER -> c

upper(s) == [i \in 1..Len(s) |-> UpperChar(s[i])]

Whitespace == {" ", "\t", "\n"}

\* str.strip(): surrounding whitespace removed
RECURSIVE lstrip(_)
lstrip(s) == IF s # <<>> /\ Head(s) \in Whitespace THEN lstrip(Tail(s)) ELSE s

RECURSIVE rstrip(_)
rstrip(s) ==
    IF s # <<>> /\ s[Len(s)] \in Whitespace THEN rstrip(SubSeq(s, 1, Len(s) - 1)) ELSE s

strip(s) == rstrip(lstrip(s))

\* str.split(sep): the segments between the separators, empty ones kept
RECURSIVE split(_, _)
split(s, sep) ==
    IF \A i \in 1..Len(s) : s[i] # sep THEN <<s>>
    ELSE LET k == Min({i \in 1..Len(s) : s[i] = sep})
         IN <<SubSeq(s, 1, k - 1)>> \o split(SubSeq(s, k + 1, Len(s)), sep)

(***************************************************************************)
(* licensing.py                                                            *)
(***************************************************************************)
PREFIX == <<"P","C","T","L">>
ENV_VAR == "PROMPTCTL_LICENSE"
MAX_FREE_VERSIONS == 5

FREE == "free"
PRO == "pro"

LicenseInfo(tier, key) == [tier |-> tier, key |-> key]

is_pro(info) == info.tier = PRO

\* SHA256("promptctl-v1:" + body).hexdigest()[:4].upper(), tabulated from the
\* real digests for the bodies the model's keys hold.
compute_checksum(body) ==
    CASE body = <<"T","E","S","T","-","K","E","Y","0">> -> <<"F","4","3","5">>
      [] body = <<"X","X","X","X","-","Y","Y","Y","Y">> -> <<"E","0","F","9">>
      [] body = <<"A","B","C","D","-","E","F","G","H">> -> <<"E","F","C","A">>
      [] body = <<"1","2","3","4","-","5","6","7","8">> -> <<"4","7","7","C">>
      [] body = <<"a","b","c","d","-","e","f","g","h">> -> <<"C","7","F","7">>
      [] body = <<"A","B","C","D">> -> <<"3","A","6","8">>
      [] body = <<"A","-","B","-","C">> -> <<"C","4","C","2">>
      [] body = <<>> -> <<"6","3","A","1">>
      [] OTHER -> <<"?","?","?","?">>

\* Mutant of checksum_matches: the segment is compared as it is written.
MutChecksumCaseSensitive(segment, expected_checksum) == segment = expected_checksum

\* parts[3].upper() != expected_checksum
checksum_matches(segment, expected_checksum) == upper(segment) = expected_checksum

\* validate_key: the LicenseInfo, or the LicenseError raised
validate_key(key) ==
    IF key = <<>> THEN [error |-> "LicenseError", msg |-> "Empty license key"]
    ELSE LET parts == split(strip(key), "-") IN
      IF Len(parts) # 4
        THEN [error |-> "LicenseError", msg |-> "Invalid key format"]
      ELSE IF parts[1] # PREFIX
        THEN [error |-> "LicenseError", msg |-> "Invalid key prefix"]
      ELSE LET body == parts[2] \o <<"-">> \o parts[3]
               expected_checksum == compute_checksum(body)
           IN IF ~checksum_matches(parts[4], expected_checksum)
                THEN [error |-> "LicenseError", msg |-> "Invalid license key checksum"]
                ELSE LicenseInfo(PRO, key)

raised(r) == "error" \in DOMAIN r

\* Mutant of get_license: the LicenseError of validate_key is not caught.
MutGetLicenseLetsErrorOut(env) ==
    IF env = <<>> THEN LicenseInfo(FREE, <<>>) ELSE validate_key(env)

\* get_license: the key of the environment, FREE when unset or rejected
get_license(env) ==
    IF env = <<>> THEN LicenseInfo(FREE, <<>>)
    ELSE IF raised(validate_key(env)) THEN LicenseInfo(FREE, <<>>)
    ELSE validate_key(env)

\* generate_key(body)
generate_key(body) ==
    LET b == IF body = None THEN <<"T","E","S","T","-","K","E","Y","0">> ELSE body
    IN PREFIX \o <<"-">> \o b \o <<"-">> \o compute_checksum(b)

\* The values the environment variable takes: unset, a valid key (the one the
\* test fixture pro_license_env sets) and a key with a wrong checksum.
EnvKeys ==
    { <<>>,
      generate_key(None),
      <<"P","C","T","L","-","X","X","X","X","-","Y","Y","Y","Y","-","Z","Z","Z","Z">> }

\* monkeypatch.setenv / delenv between two operations
SetLicense(k) ==
    /\ k # license_env
    /\ license_env' = k
    /\ result' = [op |-> "env"]
    /\ UNCHANGED <<versioner_vars, gate_vars, chunk_vars, mr_vars>>

(***************************************************************************)
(* prompt/versioner.py                                                     *)
(***************************************************************************)
\* A template path: its directory and its stem (Path(template_path).stem).
TemplatePaths == { [dir |-> "p", stem |-> "a"], [dir |-> "p", stem |-> "b"] }
Names == {p.stem : p \in TemplatePaths}
Contents == {"c1", "c2"}

\* prompt_dir / f"v{num}.yaml"
VersionPath(name, num) == [name |-> name, file |-> num]

\* _get_version_numbers: the N of the v<N>.yaml files of the directory
get_version_numbers(st, name) == DOMAIN st[name]

\* Mutant of copy2: an existing destination is left as it is (exclusive create).
MutCopy2KeepsExisting(dir, num, content) ==
    [n \in (DOMAIN dir) \cup {num} |-> IF n \in DOMAIN dir THEN dir[n] ELSE content]

\* shutil.copy2(src, dest): dest holds the content of src
copy2(dir, num, content) ==
    [n \in (DOMAIN dir) \cup {num} |-> IF n = num THEN content ELSE dir[n]]

\* Mutants of next_version_of: a default of 1 instead of 0; the + 1 forgotten.
MutNextVersionDefaultOne(existing) == Max(existing, 1) + 1

MutNextVersionNoIncrement(existing) == Max(existing, 1)

\* max(existing, default=0) + 1
next_version_of(existing) == Max(existing, 0) + 1

\* Mutant of over_free_limit: the ceiling is taken one too high.
MutOverFreeLimitOneHigher(license_info, next_version) ==
    ~is_pro(license_info) /\ next_version > MAX_FREE_VERSIONS + 1

\* Mutant of over_free_limit: >= for >.
MutOverFreeLimitInclusive(license_info, next_version) ==
    ~is_pro(license_info) /\ next_version >= MAX_FREE_VERSIONS

\* if not license_info.is_pro and next_version > MAX_FREE_VERSIONS
over_free_limit(license_info, next_version) ==
    ~is_pro(license_info) /\ next_version > MAX_FREE_VERSIONS

\* Mutant of save_version: the directory is made before the source file is
\* looked for, and the limit is checked after the copy.
MutSaveChecksAfterWriting(p) ==
    LET name == p.stem
        existing == get_version_numbers(store, name)
        next_version == next_version_of(existing)
        license_info == get_license(license_env)
    IN /\ next_version <= MaxVersion
       /\ dirs' = dirs \cup {name}
       /\ IF templates[p] = NoFile
          THEN /\ result' = [op |-> "save", path |-> p, error |-> "PromptError",
                             msg |-> "Template file not found"]
               /\ UNCHANGED <<store, returned>>
          ELSE /\ store' = [store EXCEPT
                              ![name] = copy2(@, next_version, templates[p])]
               /\ IF over_free_limit(license_info, next_version)
                  THEN /\ result' = [op |-> "save", path |-> p,
                                     error |-> "PromptError",
                                     msg |-> "Free tier limited"]
                       /\ UNCHANGED returned
                  ELSE /\ returned' = [returned EXCEPT
                                         ![name] = Append(@, next_version)]
                       /\ result' = [op |-> "save", path |-> p,
                                     value |-> <<next_version,
                                                 VersionPath(name, next_version)>>]
       /\ UNCHANGED <<license_env, templates, edits, savers, gate_vars, chunk_vars, mr_vars>>

save_version(p) ==
    IF templates[p] = NoFile
    THEN /\ result' = [op |-> "save", path |-> p, error |-> "PromptError",
                       msg |-> "Template file not found"]
         /\ UNCHANGED <<license_env, versioner_vars, gate_vars, chunk_vars, mr_vars>>
    ELSE LET name == p.stem
             existing == get_version_numbers(store, name)
             next_version == next_version_of(existing)
             license_info == get_license(license_env)
         IN /\ next_version <= MaxVersion
            /\ dirs' = dirs \cup {name}            \* mkdir(parents, exist_ok)
            /\ IF over_free_limit(license_info, next_version)
               THEN /\ result' = [op |-> "save", path |-> p, error |-> "PromptError",
                                  msg |-> "Free tier limited"]
                    /\ UNCHANGED <<store, returned>>
               ELSE /\ store' = [store EXCEPT
                                   ![name] = copy2(@, next_version, templates[p])]
                    /\ returned' = [returned EXCEPT ![name] = Append(@, next_version)]
                    /\ result' = [op |-> "save", path |-> p,
                                  value |-> <<next_version,
                                              VersionPath(name, next_version)>>]
            /\ UNCHANGED <<license_env, templates, edits, savers, gate_vars, chunk_vars, mr_vars>>

\* Mutant of listing: the numbers are taken in descending order.
MutListingDescending(d, st, name) ==
    IF name \notin d THEN <<>>
    ELSE LET nums == sorted(get_version_numbers(st, name))
         IN [i \in 1..Len(nums) |->
               [version |-> nums[Len(nums) + 1 - i],
                path |-> VersionPath(name, nums[Len(nums) + 1 - i])]]

\* What list_versions returns for the directories d and the files st.
listing(d, st, name) ==
    IF name \notin d THEN <<>>
    ELSE LET nums == sorted(get_version_numbers(st, name))
         IN [i \in 1..Len(nums) |->
               [version |-> nums[i], path |-> VersionPath(name, nums[i])]]

list_versions(name) ==
    /\ result' = [op |-> "list", name |-> name, value |-> listing(dirs, store, name)]
    /\ UNCHANGED <<license_env, versioner_vars, gate_vars, chunk_vars, mr_vars>>

load_version(name, version) ==
    /\ result' = IF version \notin DOMAIN store[name]
                 THEN [op |-> "load", name |-> name, version |-> version,
                       error |-> "PromptError", msg |-> "Version not found"]
                 ELSE [op |-> "load", name |-> name, version |-> version,
                       value |-> VersionPath(name, version)]
    /\ UNCHANGED <<license_env, versioner_vars, gate_vars, chunk_vars, mr_vars>>

\* The user rewrites or removes a template file between two operations.
EditTemplate(p, c) ==
    /\ edits < MaxEdits
    /\ c # templates[p]
    /\ templates' = [templates EXCEPT ![p] = c]
    /\ edits' = edits + 1
    /\ result' = [op |-> "env"]
    /\ UNCHANGED <<license_env, dirs, store, returned, savers, gate_vars, chunk_vars, mr_vars>>

GateIdle == calls = <<>> /\ sent = <<>>

MapReduceIdle ==
    /\ mr_text = <<>> /\ mr_model = "" /\ mr_word_count = 0
    /\ mr_chunks = <<>> /\ total_input = 0 /\ total_output = 0
    /\ chunk_summaries = <<>> /\ mr_usages = <<>> /\ mr_pc = "idle"

\* chunker.py's module globals as the module sets them
DEFAULT_CHUNK_CHAR_SIZE == 400000
DEFAULT_OVERLAP_CHARS == 2000

ChunkIdle ==
    /\ CHUNK_CHAR_SIZE = DEFAULT_CHUNK_CHAR_SIZE
    /\ OVERLAP_CHARS = DEFAULT_OVERLAP_CHARS
    /\ ck_text = <<>> /\ ck_size = 0 /\ ck_overlap = 0
    /\ ck_start = 0 /\ ck_chunks = <<>> /\ ck_offsets = <<>> /\ ck_pc = "idle"
    /\ MapReduceIdle

\* A fresh PROMPTCTL_DIR and no license (tests/conftest.py), the template
\* p/a.yaml written, p/b.yaml not yet.
InitVersioner ==
    /\ license_env = <<>>
    /\ templates = [p \in TemplatePaths |-> IF p.stem = "a" THEN "c1" ELSE NoFile]
    /\ dirs = {}
    /\ store = [n \in Names |-> <<>>]
    /\ edits = 0
    /\ savers = <<>>
    /\ result = [op |-> "env"]
    /\ returned = [n \in Names |-> <<>>]
    /\ GateIdle
    /\ ChunkIdle

NextVersioner ==
    \/ \E k \in EnvKeys : SetLicense(k)
    \/ \E p \in TemplatePaths : save_version(p)
    \/ \E n \in Names : list_versions(n)
    \/ \E n \in Names, v \in 1..MaxLoad : load_version(n, v)
    \/ \E p \in TemplatePaths, c \in Contents \cup {NoFile} : EditTemplate(p, c)

SpecVersioner == InitVersioner /\ [][NextVersioner]_vars

(***************************************************************************)
(* Claims about the versioner, checked under SpecVersioner.                *)
(***************************************************************************)
\* The step is a save of template path p that returned (did not raise).
SaveReturned(p) == result'.op = "save" /\ result'.path = p /\ ~raised(result')

\* The step is a save of template path p that raised.
SaveRaised(p) == result'.op = "save" /\ result'.path = p /\ raised(result')

FreeTierError(r) == r.op = "save" /\ raised(r) /\ r.msg = "Free tier limited"

NotFoundError(r) == r.op = "save" /\ raised(r) /\ r.msg = "Template file not found"

\* C1: under sequential execution a successful save returns a number that no
\* existing snapshot of the name has, that is greater than all of them and
\* that is 1 or the successor of an existing one (max(existing)+1, 1 for an
\* absent or empty directory), and the numbers successful saves returned for
\* a name are 1, 2, 3, ... in order, without repeats or gaps.
C1_SaveNumbersFromOneNoGaps ==
    /\ [](\A n \in Names : \A i \in 1..Len(returned[n]) : returned[n][i] = i)
    /\ [][\A p \in TemplatePaths : SaveReturned(p) =>
            LET existing == DOMAIN store[p.stem]
                v == result'.value[1]
            IN /\ \A x \in existing : x < v
               /\ v = 1 \/ (v - 1) \in existing
               /\ (p.stem \notin dirs \/ existing = {}) => v = 1
               /\ returned'[p.stem] = Append(returned[p.stem], v)]_vars

\* C1 witness: the eleventh successive save of a name returned 11.
C1_Witness ==
    /\ result.op = "save" /\ ~raised(result)
    /\ result.value[1] = 11
    /\ returned[result.path.stem] = <<1, 2, 3, 4, 5, 6, 7, 8, 9, 10, 11>>

\* C2: a save whose source file exists raises the free-tier-limit error if and
\* only if the tier resolved from the environment is not PRO and max(existing)+1
\* exceeds 5; otherwise it returns max(existing)+1.
C2_DeniedIffFreeAndOverFive ==
    [][\A p \in TemplatePaths :
          (result'.op = "save" /\ result'.path = p /\ templates[p] # NoFile) =>
             LET over == /\ get_license(license_env).tier # PRO
                         /\ Max(DOMAIN store[p.stem], 0) + 1 > 5
             IN /\ FreeTierError(result') <=> over
                /\ ~over => /\ ~raised(result')
                            /\ result'.value[1] = Max(DOMAIN store[p.stem], 0) + 1]_vars

\* C2 witness: on FREE tier, after saves 1..5 of a name, the sixth is denied.
C2_Witness ==
    /\ FreeTierError(result)
    /\ get_license(license_env).tier = FREE
    /\ returned[result.path.stem] = <<1, 2, 3, 4, 5>>
    /\ DOMAIN store[result.path.stem] = 1..5

\* C3: a save that raises (source file missing, or free-tier limit) leaves the
\* snapshot files and the directories as they were, so list(name) returns the
\* same before and after, for every name.
C3_FailedSaveNoSideEffect ==
    [][\A p \in TemplatePaths : SaveRaised(p) =>
          /\ NotFoundError(result') \/ FreeTierError(result')
          /\ store' = store
          /\ dirs' = dirs
          /\ \A n \in Names : listing(dirs', store', n) = listing(dirs, store, n)]_vars

\* C3 witness: a save of a missing source file raised while the name has no
\* directory, and a limit denial is reachable too (C2_Witness).
C3_Witness ==
    /\ NotFoundError(result)
    /\ result.path.stem \notin dirs
    /\ \E n \in Names : n \in dirs

\* C4: under sequential execution no step overwrites, modifies or deletes a
\* snapshot that exists, and a successful save writes a file that did not
\* exist before it.
C4_SnapshotsImmutable ==
    [][/\ \A n \in Names : \A v \in DOMAIN store[n] :
             v \in DOMAIN store'[n] /\ store'[n][v] = store[n][v]
       /\ \A p \in TemplatePaths : SaveReturned(p) =>
             /\ result'.value[1] \notin DOMAIN store[p.stem]
             /\ store'[p.stem][result'.value[1]] = templates[p]]_vars

\* C4 witness: a template was saved, rewritten and saved again, and the first
\* snapshot still holds the old content.
C4_Witness ==
    \E n \in Names : /\ {1, 2} \subseteq DOMAIN store[n]
                      /\ store[n][1] = "c1" /\ store[n][2] = "c2"

(***************************************************************************)
(* models.py: the cost model.  Rates are USD per million tokens; the model *)
(* keeps a cost as the integer 100 * (input_tokens * input_rate +          *)
(* output_tokens * output_rate), the numerator of the code's quotient by   *)
(* 1_000_000 scaled so that the rate 0.80 is whole.                        *)
(***************************************************************************)
OPUS == "claude-opus-4-20250514"
SONNET == "claude-sonnet-4-20250514"
HAIKU == "claude-haiku-4-5-20251001"

MODEL_COSTS ==
    [m \in {OPUS, SONNET, HAIKU} |->
        CASE m = OPUS -> <<1500, 7500>>
          [] m = SONNET -> <<300, 1500>>
          [] m = HAIKU -> <<80, 400>>]

calculate_cost(model, input_tokens, output_tokens) ==
    IF model \notin DOMAIN MODEL_COSTS THEN 0
    ELSE LET costs == MODEL_COSTS[model]
         IN input_tokens * costs[1] + output_tokens * costs[2]

(***************************************************************************)
(* client.py: the generation call is a black box that returns a text and   *)
(* the token usage, or fails with a ClientError.                           *)
(***************************************************************************)
ClientError == [error |-> "ClientError", msg |-> "Anthropic API error"]

\* send_message's PromptResult for what the API returned
PromptResult(model, reply) ==
    [model |-> model, response |-> reply.text,
     input_tokens |-> reply.input_tokens, output_tokens |-> reply.output_tokens,
     cost_usd |-> calculate_cost(model, reply.input_tokens, reply.output_tokens),
     latency_ms |-> reply.latency_ms]

(***************************************************************************)
(* gates.py: require_pro, and the operations it wraps: the three functions *)
(* of tests/test_gates.py and compare_models (prompt/comparator.py).       *)
(***************************************************************************)
NoKwargs == [k \in {} |-> 0]

\* f"'{feature}' requires a Pro license. Set {_ENV_VAR} environment variable."
GateMessage(feature) ==
    <<"'", feature, "' requires a Pro license. Set ", ENV_VAR, " environment variable.">>

\* Mutant of gate_allows: the tier is not looked at.
MutGateAllowsEveryTier(info) == info.tier \in {FREE, PRO}

\* if info.tier != Tier.PRO: raise
gate_allows(info) == info.tier = PRO

\* What the wrapped test functions return.
test_func_return(func, args, kwargs) ==
    CASE func = "gated_func" -> "success"
      [] func = "add" ->
           args[1] + args[2] + (IF "extra" \in DOMAIN kwargs THEN kwargs.extra ELSE 0)
      [] func = "void_func" -> None

\* func(*args, **kwargs) for a wrapped test function
call_test_func(feature, func, args, kwargs) ==
    /\ calls' = Append(calls, [func |-> func, args |-> args, kwargs |-> kwargs])
    /\ result' = [op |-> "gated", feature |-> feature, func |-> func,
                  args |-> args, kwargs |-> kwargs,
                  value |-> test_func_return(func, args, kwargs)]
    /\ UNCHANGED sent

\* wrapper(*args, **kwargs) of require_pro(feature)(func), func a test function
require_pro_test_func(feature, func, args, kwargs) ==
    /\ Len(calls) < MaxCalls
    /\ LET info == get_license(license_env)
       IN IF ~gate_allows(info)
          THEN /\ result' = [op |-> "gated", feature |-> feature, func |-> func,
                             args |-> args, kwargs |-> kwargs,
                             error |-> "LicenseError", msg |-> GateMessage(feature)]
               /\ UNCHANGED <<calls, sent>>
          ELSE call_test_func(feature, func, args, kwargs)
    /\ UNCHANGED <<license_env, versioner_vars, chunk_vars, mr_vars>>

\* The name field of a template file's YAML.
template_name(content) == IF content = "c1" THEN "prompt-one" ELSE "prompt-two"

\* [m.strip() for m in models.split(",")], or the two default models
model_list_of(models) ==
    IF models = None \/ models = <<>> THEN <<SONNET, HAIKU>>
    ELSE LET parts == split(models, ",")
         IN [i \in 1..Len(parts) |-> strip(parts[i])]

\* What the API returns to one generation call.
ApiReplies ==
    { [text |-> "OK", input_tokens |-> 10, output_tokens |-> 5, latency_ms |-> 1],
      [text |-> "response text", input_tokens |-> 100, output_tokens |-> 50,
       latency_ms |-> 2] }

ApiOutcomes == ApiReplies \cup {ClientError}

ComparisonEntry(r) ==
    [model |-> r.model,
     response_preview |-> r.response,        \* under 200 characters here
     input_tokens |-> r.input_tokens, output_tokens |-> r.output_tokens,
     cost_usd |-> r.cost_usd, latency_ms |-> r.latency_ms]

\* Mutant of entries_of: entry i is built from the result of call n + 1 - i.
MutEntriesFromReversedResults(model_list, outs) ==
    [i \in 1..Len(model_list) |->
       [ComparisonEntry(PromptResult(model_list[Len(model_list) + 1 - i],
                                     outs[Len(model_list) + 1 - i]))
          EXCEPT !.model = model_list[i]]]

\* entries: one ComparisonEntry appended per model of model_list, from the
\* result of that model's send_message call
entries_of(model_list, outs) ==
    [i \in 1..Len(model_list) |-> ComparisonEntry(PromptResult(model_list[i], outs[i]))]

\* The body of compare_models(template_path, models=models)
call_compare_models(feature, p, models) ==
    LET given == [op |-> "gated", feature |-> feature, func |-> "compare_models",
                  args |-> <<p>>, kwargs |-> [models |-> models]]
        model_list == model_list_of(models)
        n == Len(model_list)
    IN /\ calls' = Append(calls, [func |-> "compare_models", args |-> <<p>>,
                                  kwargs |-> [models |-> models]])
       /\ IF templates[p] = NoFile
          THEN /\ result' = given @@ [error |-> "PromptError",
                                      msg |-> "Template file not found"]
               /\ UNCHANGED sent
          ELSE IF n < 2
          THEN /\ result' = given @@ [error |-> "PromptError",
                                      msg |-> "Comparison requires at least 2 models"]
               /\ UNCHANGED sent
          ELSE \E outs \in [1..n -> ApiOutcomes] :
                 LET failed == {i \in 1..n : raised(outs[i])}
                     issued == IF failed = {} THEN n ELSE Min(failed)
                 IN /\ \A i \in 1..n : i > issued => outs[i] = ClientError
                    /\ sent' = sent \o [i \in 1..issued |->
                                          [model |-> model_list[i],
                                           content |-> templates[p],
                                           reply |-> outs[i]]]
                    /\ result' =
                         IF failed # {} THEN given @@ ClientError
                         ELSE given @@
                              [value |->
                                 [prompt_name |-> template_name(templates[p]),
                                  entries |-> entries_of(model_list, outs)]]

\* wrapper(*args, **kwargs) of @require_pro("multi-model comparison")
compare_models(p, models) ==
    /\ Len(calls) < MaxCalls
    /\ LET feature == "multi-model comparison"
           info == get_license(license_env)
       IN IF ~gate_allows(info)
          THEN /\ result' = [op |-> "gated", feature |-> feature,
                             func |-> "compare_models",
                             args |-> <<p>>, kwargs |-> [models |-> models],
                             error |-> "LicenseError", msg |-> GateMessage(feature)]
               /\ UNCHANGED <<calls, sent>>
          ELSE call_compare_models(feature, p, models)
    /\ UNCHANGED <<license_env, versioner_vars, chunk_vars, mr_vars>>

\* The calls of tests/test_gates.py and tests/test_prompt_comparator.py.
TestFuncCalls ==
    { <<"test_feature", "gated_func", <<>>, NoKwargs>>,
      <<"export", "gated_func", <<>>, NoKwargs>>,
      <<"feature", "add", <<1, 2>>, [extra |-> 3]>>,
      <<"feature", "add", <<1, 2>>, NoKwargs>>,
      <<"feature", "void_func", <<>>, NoKwargs>> }

ModelsArgs == { None, <<"a", ",", " ", "b">>, <<"o">> }

InitGate ==
    /\ license_env = <<>>
    /\ templates = [p \in TemplatePaths |-> IF p.stem = "a" THEN "c1" ELSE NoFile]
    /\ dirs = {}
    /\ store = [n \in Names |-> <<>>]
    /\ edits = 0
    /\ savers = <<>>
    /\ result = [op |-> "env"]
    /\ returned = [n \in Names |-> <<>>]
    /\ GateIdle
    /\ ChunkIdle

NextGate ==
    \/ \E k \in EnvKeys : SetLicense(k)
    \/ \E c \in TestFuncCalls : require_pro_test_func(c[1], c[2], c[3], c[4])
    \/ \E p \in TemplatePaths, m \in ModelsArgs : compare_models(p, m)

SpecGate == InitGate /\ [][NextGate]_vars

(***************************************************************************)
(* Claims about the feature gate, checked under SpecGate.                  *)
(***************************************************************************)
\* What each wrapped test function must return for the arguments given.
ExpectedReturn(r) ==
    CASE r.func = "gated_func" -> "success"
      [] r.func = "add" /\ r.kwargs = NoKwargs -> 3
      [] r.func = "add" /\ r.kwargs # NoKwargs -> 6
      [] r.func = "void_func" -> None

\* C5: a call of an operation wrapped by require_pro, on a tier other than PRO,
\* raises a LicenseError whose message names the feature and the environment
\* variable and executes nothing of the operation (no execution, no generation
\* call); on PRO tier the operation is executed once with exactly the given
\* positional and keyword arguments and what it returns (a value, None) or
\* raises is what the call returns or raises.
C5_GateRunsOnlyOnPro ==
    [][result'.op = "gated" =>
         LET r == result'
             tier == get_license(license_env).tier
         IN /\ tier # PRO =>
                 /\ raised(r) /\ r.error = "LicenseError"
                 /\ \E i \in 1..Len(r.msg) : r.msg[i] = r.feature
                 /\ \E i \in 1..Len(r.msg) : r.msg[i] = "PROMPTCTL_LICENSE"
                 /\ calls' = calls
                 /\ sent' = sent
            /\ tier = PRO =>
                 /\ calls' = Append(calls, [func |-> r.func, args |-> r.args,
                                            kwargs |-> r.kwargs])
                 /\ raised(r) => r.error # "LicenseError"
                 /\ r.func # "compare_models" =>
                      ~raised(r) /\ r.value = ExpectedReturn(r)
                 /\ (r.func = "compare_models" /\ ~raised(r)) =>
                      Len(sent') = Len(sent) + Len(r.value.entries)]_vars

\* C5 witness: on a tier other than PRO compare_models was refused, after a PRO
\* call of add(1, 2, extra=3) returned 6 and a PRO call of void_func returned None.
C5_Witness ==
    /\ result.op = "gated" /\ result.func = "compare_models"
    /\ raised(result) /\ result.error = "LicenseError"
    /\ get_license(license_env).tier = FREE
    /\ Len(calls) = 2
    /\ calls[1] = [func |-> "add", args |-> <<1, 2>>, kwargs |-> [extra |-> 3]]
    /\ calls[2].func = "void_func"

\* C25: on PRO tier, a compare_models call for at least 2 models that
\* returns gives exactly one entry per requested model, in the requested
\* order: entry i names the i-th requested model and carries the token counts,
\* the cost and the latency of the i-th generation call of this compare, which
\* was sent to that model, and of no other call.
C25_OneEntryPerModelInOrder ==
    (result.op = "gated" /\ result.func = "compare_models" /\ ~raised(result)) =>
        LET requested == model_list_of(result.kwargs.models)
            n == Len(requested)
            entries == result.value.entries
            before == Len(sent) - n
        IN /\ get_license(license_env).tier = PRO
           /\ n >= 2
           /\ Len(entries) = n
           /\ before >= 0
           /\ \A i \in 1..n :
                LET call == sent[before + i]
                IN /\ entries[i].model = requested[i]
                   /\ call.model = requested[i]
                   /\ entries[i].input_tokens = call.reply.input_tokens
                   /\ entries[i].output_tokens = call.reply.output_tokens
                   /\ entries[i].latency_ms = call.reply.latency_ms
                   /\ entries[i].cost_usd =
                        calculate_cost(requested[i], call.reply.input_tokens,
                                       call.reply.output_tokens)

\* C25 witness: a compare of the default models returned two entries, the
\* first named sonnet with 100 and 50 tokens, their cost and latency 2, the
\* second named haiku with 10 and 5 tokens, their cost and latency 1.
C25_Witness ==
    /\ result.op = "gated" /\ result.func = "compare_models" /\ ~raised(result)
    /\ result.kwargs.models = None
    /\ [i \in 1..2 |-> result.value.entries[i].model] = <<SONNET, HAIKU>>
    /\ [i \in 1..2 |-> result.value.entries[i].input_tokens] = <<100, 10>>
    /\ [i \in 1..2 |-> result.value.entries[i].output_tokens] = <<50, 5>>
    /\ [i \in 1..2 |-> result.value.entries[i].latency_ms] = <<2, 1>>
    /\ [i \in 1..2 |-> result.value.entries[i].cost_usd] =
          <<calculate_cost(SONNET, 100, 50), calculate_cost(HAIKU, 10, 5)>>
    /\ calculate_cost(SONNET, 100, 50) # calculate_cost(HAIKU, 10, 5)

(***************************************************************************)
(* doc/chunker.py: chunk_text, one action per loop iteration.              *)
(***************************************************************************)
\* s[start:end] with Python's handling of negative and out-of-range indices
PySlice(s, start, end) ==
    LET n == Len(s)
        norm(i) == IF i < 0 THEN (IF i + n < 0 THEN 0 ELSE i + n)
                   ELSE IF i > n THEN n ELSE i
        lo == norm(start)
        hi == norm(end)
    IN IF lo >= hi THEN <<>> ELSE SubSeq(s, lo + 1, hi)

\* Mutant of fits_one_chunk: < for <=.
MutFitsOneChunkStrict(text, chunk_size) == Len(text) < chunk_size

\* if len(text) <= chunk_size: return [text]
fits_one_chunk(text, chunk_size) == Len(text) <= chunk_size

\* Mutant of chunk_end: the window is widened by the overlap.
MutChunkEndPlusOverlap(start, chunk_size, overlap) == start + chunk_size + overlap

\* end = start + chunk_size
chunk_end(start, chunk_size, overlap) == start + chunk_size

\* Mutant of next_start: the overlap is stepped back twice.
MutNextStartStepsBackTwice(end, overlap) == end - 2 * overlap

\* Mutant of next_start: the overlap is not stepped back.
MutNextStartNoOverlap(end, overlap) == end

\* start = end - overlap
next_start(end, overlap) == end - overlap

\* Mutant of loop_breaks: the test forgets the overlap.
MutLoopBreaksWithoutOverlap(start, overlap, text) == start >= Len(text)

\* if start + overlap >= len(text): break
loop_breaks(start, overlap, text) == start + overlap >= Len(text)

\* The call: the defaults, the single-chunk return, or the loop entered.
ChunkEnter ==
    /\ ck_pc = "call"
    /\ IF fits_one_chunk(ck_text, ck_size)
       THEN /\ ck_chunks' = <<ck_text>>
            /\ ck_offsets' = <<0>>
            /\ ck_pc' = "done"
       ELSE /\ ck_chunks' = <<>>
            /\ ck_offsets' = <<>>
            /\ ck_pc' = "loop"
    /\ ck_start' = 0
    /\ UNCHANGED <<license_env, result, versioner_vars, gate_vars, mr_vars,
                   CHUNK_CHAR_SIZE, OVERLAP_CHARS, ck_text, ck_size, ck_overlap>>

\* One evaluation of the while condition and, when it holds, one iteration.
ChunkIter ==
    /\ ck_pc = "loop"
    /\ LET end == chunk_end(ck_start, ck_size, ck_overlap)
           start == next_start(end, ck_overlap)
       IN IF ~(ck_start < Len(ck_text))
          THEN /\ ck_pc' = "done"
               /\ UNCHANGED <<ck_start, ck_chunks, ck_offsets>>
          ELSE /\ Len(ck_chunks) < MaxChunks
               /\ ck_chunks' = Append(ck_chunks, PySlice(ck_text, ck_start, end))
               /\ ck_offsets' = Append(ck_offsets, ck_start)
               /\ ck_start' = start
               /\ ck_pc' = IF loop_breaks(start, ck_overlap, ck_text)
                           THEN "done" ELSE "loop"
    /\ UNCHANGED <<license_env, result, versioner_vars, gate_vars, mr_vars,
                   CHUNK_CHAR_SIZE, OVERLAP_CHARS, ck_text, ck_size, ck_overlap>>

\* The texts of at most n characters over a two-letter alphabet.
RECURSIVE Texts(_)
Texts(n) ==
    IF n = 0 THEN {<<>>}
    ELSE Texts(n - 1) \cup
         {Append(t, c) : t \in {u \in Texts(n - 1) : Len(u) = n - 1}, c \in {"a", "b"}}

\* A call chunk_text(text, chunk_size, overlap) about to run; each of the two
\* numbers is the one given or, when None is given, the module global
\* (if chunk_size is None: chunk_size = CHUNK_CHAR_SIZE, and so for overlap).
InitChunk ==
    /\ license_env = <<>>
    /\ templates = [p \in TemplatePaths |-> IF p.stem = "a" THEN "c1" ELSE NoFile]
    /\ dirs = {}
    /\ store = [n \in Names |-> <<>>]
    /\ edits = 0
    /\ savers = <<>>
    /\ result = [op |-> "env"]
    /\ returned = [n \in Names |-> <<>>]
    /\ GateIdle
    /\ CHUNK_CHAR_SIZE = DEFAULT_CHUNK_CHAR_SIZE
    /\ OVERLAP_CHARS = DEFAULT_OVERLAP_CHARS
    /\ ck_text \in Texts(MaxTextLen)
    /\ ck_size \in (0..MaxChunkSize) \cup {CHUNK_CHAR_SIZE}
    /\ ck_overlap \in (0..MaxOverlap) \cup {OVERLAP_CHARS}
    /\ ck_start = 0 /\ ck_chunks = <<>> /\ ck_offsets = <<>>
    /\ ck_pc = "call"
    /\ MapReduceIdle

NextChunk == ChunkEnter \/ ChunkIter

SpecChunk == InitChunk /\ [][NextChunk]_vars

\* The interpreter keeps running a call that has not returned.
SpecChunkFair == SpecChunk /\ WF_vars(NextChunk)

(***************************************************************************)
(* Claims about chunk_text, checked under SpecChunk and SpecChunkFair.     *)
(***************************************************************************)
\* The call was given numbers with len(text) > size and 0 <= overlap < size.
SplitCase ==
    /\ Len(ck_text) > ck_size
    /\ 0 <= ck_overlap /\ ck_overlap < ck_size

Returned == ck_pc = "done"

\* C6: when len(text) > size and 0 <= overlap < size, every two consecutive
\* chunks returned hold at least overlap characters each and the last overlap
\* characters of chunk i are the first overlap characters of chunk i+1.
C6_ConsecutiveChunksOverlap ==
    (Returned /\ SplitCase) =>
        \A i \in 1..(Len(ck_chunks) - 1) :
            LET a == ck_chunks[i]
                b == ck_chunks[i + 1]
            IN /\ Len(a) >= ck_overlap
               /\ Len(b) >= ck_overlap
               /\ SubSeq(a, Len(a) - ck_overlap + 1, Len(a)) = SubSeq(b, 1, ck_overlap)

\* C6 witness: a text split into three chunks, each sharing two characters
\* with the next.
C6_Witness ==
    /\ Returned /\ SplitCase
    /\ ck_text = <<"a", "b", "b", "a", "b">> /\ ck_size = 3 /\ ck_overlap = 2
    /\ ck_chunks = << <<"a", "b", "b">>, <<"b", "b", "a">>, <<"b", "a", "b">> >>

\* The loop is followed for MaxChunks iterations; the only calls it is cut off
\* in are those whose start does not advance (start = end - overlap with
\* overlap >= chunk_size), which repeat the same iteration for ever.
LoopCutOnlyWhenStartStuck ==
    (ck_pc = "loop" /\ Len(ck_chunks) = MaxChunks) =>
        /\ ck_overlap >= ck_size
        /\ ck_start < Len(ck_text)
        /\ next_start(chunk_end(ck_start, ck_size, ck_overlap), ck_overlap) <= ck_start

\* C7: for any text, size and overlap, chunk_text returns, and returns a list
\* of at least one element.
C7_ChunkTerminates == <>(Returned /\ Len(ck_chunks) >= 1)

\* C8: when len(text) <= size the call returns exactly [text], whatever the
\* overlap; the empty text gives one empty chunk.
C8_ShortTextSingleChunk ==
    (Returned /\ Len(ck_text) <= ck_size) =>
        /\ Len(ck_chunks) = 1
        /\ ck_chunks[1] = ck_text

\* C8 witness: chunk_text("", 0, overlap) returned one empty chunk.
C8_Witness ==
    /\ Returned /\ ck_text = <<>> /\ ck_size = 0
    /\ ck_chunks = << <<>> >>

\* C9: when len(text) > size and 0 <= overlap < size, chunk i (from 0) starts
\* at offset i*(size - overlap) and is the text from there, every chunk but
\* the last has exactly size characters and the last has at most size.
C9_WindowsAdvanceByStep ==
    (Returned /\ SplitCase) =>
        LET n == Len(ck_chunks)
            step == ck_size - ck_overlap
        IN /\ n >= 1
           /\ Len(ck_offsets) = n
           /\ \A i \in 1..n :
                /\ ck_offsets[i] = (i - 1) * step
                /\ ck_offsets[i] < Len(ck_text)
                /\ Len(ck_chunks[i]) <= ck_size
                /\ i < n => Len(ck_chunks[i]) = ck_size
                /\ ck_chunks[i] =
                     [k \in 1..Len(ck_chunks[i]) |-> ck_text[ck_offsets[i] + k]]

\* C9 witness: four characters in windows of three stepping by two, the last
\* window cut short by the end of the text.
C9_Witness ==
    /\ Returned /\ SplitCase
    /\ Len(ck_text) = 4 /\ ck_size = 3 /\ ck_overlap = 1
    /\ ck_offsets = <<0, 2>>
    /\ Len(ck_chunks[1]) = 3 /\ Len(ck_chunks[2]) = 2

\* The characters of the text a chunk list covers: up to the furthest window end.
CoveredUpTo(offsets, chunks) ==
    Max({offsets[i] + Len(chunks[i]) : i \in 1..Len(chunks)}, 0)

\* C27: when len(text) > size and 0 <= overlap < size, the loop stops at the
\* first window that reaches the end of the text, so only the final window
\* does; the final chunk is longer than overlap characters and holds at least
\* one character of the text that no earlier chunk holds.
C27_NoDegenerateLastChunk ==
    (Returned /\ SplitCase) =>
        LET n == Len(ck_chunks)
        IN /\ n >= 2
           /\ \A i \in 1..(n - 1) : ck_offsets[i] + ck_size < Len(ck_text)
           /\ ck_offsets[n] + ck_size >= Len(ck_text)
           /\ Len(ck_chunks[n]) > ck_overlap
           /\ ck_offsets[n] + Len(ck_chunks[n]) >
                CoveredUpTo(SubSeq(ck_offsets, 1, n - 1), SubSeq(ck_chunks, 1, n - 1))

\* C27 witness: a text of 5 characters with size 3 and overlap 2; the third
\* window ends exactly at the end of the text and no fourth chunk follows.
C27_Witness ==
    /\ Returned /\ SplitCase
    /\ Len(ck_text) = 5 /\ ck_size = 3 /\ ck_overlap = 2
    /\ ck_offsets = <<0, 1, 2>>
    /\ Len(ck_chunks[3]) = 3
    /\ ck_start = 3

\* The first chunk followed by every later chunk without its first overlap
\* characters.
RECURSIVE Reassembled(_, _)
Reassembled(chunks, overlap) ==
    IF Len(chunks) <= 1 THEN (IF chunks = <<>> THEN <<>> ELSE chunks[1])
    ELSE LET last == chunks[Len(chunks)]
         IN Reassembled(SubSeq(chunks, 1, Len(chunks) - 1), overlap)
              \o PySlice(last, overlap, Len(last))

\* C29: when len(text) > size and 0 <= overlap < size, the first chunk
\* followed by each later chunk with its first overlap characters removed is
\* exactly the text: nothing is lost, repeated or reordered.
C29_ChunksReassembleToText ==
    (Returned /\ SplitCase) => Reassembled(ck_chunks, ck_overlap) = ck_text

\* C29 witness: "abaab" with size 3 and overlap 1 gave "aba" and "aab", and
\* "aba" followed by "ab" is the text.
C29_Witness ==
    /\ Returned /\ SplitCase
    /\ ck_text = <<"a", "b", "a", "a", "b">> /\ ck_size = 3 /\ ck_overlap = 1
    /\ ck_chunks = << <<"a", "b", "a">>, <<"a", "a", "b">> >>
    /\ Reassembled(ck_chunks, ck_overlap) = <<"a", "b", "a">> \o <<"a", "b">>

(***************************************************************************)
(* doc/chunker.py: map_reduce_summarize, one action per generation call.   *)
(***************************************************************************)
\* The while loop of chunk_text run to its return.
RECURSIVE chunk_loop(_, _, _, _, _)
chunk_loop(text, chunk_size, overlap, start, chunks) ==
    IF ~(start < Len(text)) THEN chunks
    ELSE LET end == chunk_end(start, chunk_size, overlap)
             appended == Append(chunks, PySlice(text, start, end))
             start1 == next_start(end, overlap)
         IN IF loop_breaks(start1, overlap, text) THEN appended
            ELSE chunk_loop(text, chunk_size, overlap, start1, appended)

\* What chunk_text(text, chunk_size, overlap) returns when it returns.
chunk_text(text, chunk_size, overlap) ==
    IF fits_one_chunk(text, chunk_size) THEN <<text>>
    ELSE chunk_loop(text, chunk_size, overlap, 0, <<>>)

\* What the API returns to a generation call of the summarizer: the text (its
\* body and its length in characters) and the usage.
MapReduceReplies ==
    { [text |-> [body |-> "{\"section_summary\": \"S\"}", len |-> 26],
       input_tokens |-> 100, output_tokens |-> 50],
      [text |-> [body |-> "{\"executive_summary\": \"E\", \"sections\": [\"x\"]}", len |-> 45],
       input_tokens |-> 80, output_tokens |-> 60],
      [text |-> [body |-> "Not JSON at all", len |-> 15],
       input_tokens |-> 50, output_tokens |-> 25],
      [text |-> [body |-> "long prose", len |-> 600],
       input_tokens |-> 10, output_tokens |-> 5],
      [text |-> [body |-> "[1]", len |-> 3],
       input_tokens |-> 1, output_tokens |-> 1] }

MapReduceOutcomes == MapReduceReplies \cup {ClientError}

\* json.loads(response.strip()): a dict, another JSON value, or JSONDecodeError
\* (the replies enumerated carry no surrounding whitespace)
json_loads(text) ==
    CASE text.body = "{\"section_summary\": \"S\"}" ->
           [kind |-> "dict", fields |-> [section_summary |-> "S"]]
      [] text.body = "{\"executive_summary\": \"E\", \"sections\": [\"x\"]}" ->
           [kind |-> "dict", fields |-> [executive_summary |-> "E", sections |-> <<"x">>]]
      [] text.body = "[1]" -> [kind |-> "list"]
      [] OTHER -> [kind |-> "JSONDecodeError"]

\* response[:500]
first_500(text) == [text EXCEPT !.len = IF @ > 500 THEN 500 ELSE @]

\* data.get(key, default)
dict_get(data, key, default) ==
    IF key \in DOMAIN data.fields THEN data.fields[key] ELSE default

\* Mutant of add_tokens: = for +=.
MutAddTokensOverwrites(total, tokens) == tokens

\* total_input += result.input_tokens
add_tokens(total, tokens) == total + tokens

\* Mutant of after_raise: the failed generation call is issued again.
MutRetryAfterRaise(pc) == pc

\* raise ClientError(...) from e: nothing in map_reduce_summarize catches it, so
\* the exception leaves the call, whatever phase it was in.
after_raise(pc) == "failed"

\* chunks = chunk_text(text); total_input = 0; total_output = 0
MapReduceEnter ==
    /\ mr_pc = "call"
    /\ mr_chunks' = chunk_text(mr_text, CHUNK_CHAR_SIZE, OVERLAP_CHARS)
    /\ total_input' = 0
    /\ total_output' = 0
    /\ chunk_summaries' = <<>>
    /\ mr_pc' = IF mr_chunks' = <<>> THEN "reduce" ELSE "map"
    /\ UNCHANGED <<license_env, result, versioner_vars, gate_vars, chunk_vars,
                   mr_text, mr_model, mr_word_count, mr_usages>>

\* One iteration of the map loop: the generation call for the next chunk.
MapCall(out) ==
    /\ mr_pc = "map"
    /\ LET i == Len(chunk_summaries) + 1
           chunk == mr_chunks[i]
       IN /\ sent' = Append(sent, [model |-> mr_model,
                                   system |-> "CHUNK_SUMMARIZE_PROMPT",
                                   content |-> chunk, max_tokens |-> 2048])
          /\ IF raised(out)
             THEN /\ result' = [op |-> "map_reduce"] @@ out
                  /\ mr_pc' = after_raise(mr_pc)
                  /\ UNCHANGED <<total_input, total_output, chunk_summaries, mr_usages>>
             ELSE LET res == PromptResult(mr_model, out @@ [latency_ms |-> 0])
                      data == json_loads(res.response)
                  IN /\ total_input' = add_tokens(total_input, res.input_tokens)
                     /\ total_output' = add_tokens(total_output, res.output_tokens)
                     /\ mr_usages' = Append(mr_usages,
                                            [input_tokens |-> out.input_tokens,
                                             output_tokens |-> out.output_tokens])
                     /\ CASE data.kind = "JSONDecodeError" ->
                               /\ chunk_summaries' =
                                    Append(chunk_summaries, first_500(res.response))
                               /\ mr_pc' = IF i = Len(mr_chunks) THEN "reduce" ELSE "map"
                               /\ UNCHANGED result
                          [] data.kind = "dict" ->
                               /\ chunk_summaries' =
                                    Append(chunk_summaries,
                                           dict_get(data, "section_summary",
                                                    first_500(res.response)))
                               /\ mr_pc' = IF i = Len(mr_chunks) THEN "reduce" ELSE "map"
                               /\ UNCHANGED result
                          [] OTHER ->      \* data.get on a value that is no dict
                               /\ result' = [op |-> "map_reduce",
                                             error |-> "AttributeError",
                                             msg |-> "object has no attribute 'get'"]
                               /\ mr_pc' = "failed"
                               /\ UNCHANGED chunk_summaries
    /\ UNCHANGED <<license_env, versioner_vars, calls, chunk_vars,
                   mr_text, mr_model, mr_word_count, mr_chunks>>

\* Mutant of combined_of: the labels count from 0.
MutCombinedLabelsFromZero(summaries) ==
    [i \in 1..Len(summaries) |-> [label |-> i - 1, summary |-> summaries[i]]]

\* "\n\n---\n\n".join(f"Section {i + 1}:\n{s}" for i, s in enumerate(chunk_summaries))
combined_of(summaries) ==
    [i \in 1..Len(summaries) |-> [label |-> i, summary |-> summaries[i]]]

\* The reduce call and the DocSummary returned.
ReduceCall(out) ==
    /\ mr_pc = "reduce"
    /\ sent' = Append(sent, [model |-> mr_model, system |-> "REDUCE_PROMPT",
                             content |-> combined_of(chunk_summaries),
                             max_tokens |-> 4096])
    /\ IF raised(out)
       THEN /\ result' = [op |-> "map_reduce"] @@ out
            /\ mr_pc' = after_raise(mr_pc)
            /\ UNCHANGED <<total_input, total_output, mr_usages>>
       ELSE LET reduce_result == PromptResult(mr_model, out @@ [latency_ms |-> 0])
                loaded == json_loads(reduce_result.response)
                data == IF loaded.kind = "JSONDecodeError"
                        THEN [kind |-> "dict", fields |-> [k \in {} |-> 0]]
                        ELSE loaded
                tin == add_tokens(total_input, reduce_result.input_tokens)
                tout == add_tokens(total_output, reduce_result.output_tokens)
            IN /\ total_input' = tin
               /\ total_output' = tout
               /\ mr_usages' = Append(mr_usages,
                                      [input_tokens |-> out.input_tokens,
                                       output_tokens |-> out.output_tokens])
               /\ IF data.kind # "dict"
                  THEN /\ result' = [op |-> "map_reduce", error |-> "AttributeError",
                                     msg |-> "object has no attribute 'get'"]
                       /\ mr_pc' = "failed"
                  ELSE /\ result' =
                            [op |-> "map_reduce",
                             value |->
                               [executive_summary |->
                                  dict_get(data, "executive_summary",
                                           first_500(reduce_result.response)),
                                sections |-> dict_get(data, "sections", chunk_summaries),
                                word_count |-> mr_word_count,
                                model |-> mr_model,
                                input_tokens |-> tin,
                                output_tokens |-> tout,
                                cost_usd |-> calculate_cost(mr_model, tin, tout),
                                chunks_processed |-> Len(mr_chunks)]]
                       /\ mr_pc' = "done"
    /\ UNCHANGED <<license_env, versioner_vars, calls, chunk_vars,
                   mr_text, mr_model, mr_word_count, mr_chunks, chunk_summaries>>

\* The documents of at most n characters: "x" * k (tests/test_doc_chunker.py:
\* "x" * 200) and the first k letters of the alphabet, whose chunks differ.
Documents(n) ==
    {[i \in 1..k |-> "x"] : k \in 0..n}
      \cup {SubSeq(<<"a", "b", "c", "d", "e", "f", "g", "h">>, 1, k) : k \in 1..n}

\* A call map_reduce_summarize(text, model, word_count) about to run, with the
\* module globals as the module sets them or as the tests patch them.
InitMapReduce ==
    /\ license_env = <<>>
    /\ templates = [p \in TemplatePaths |-> IF p.stem = "a" THEN "c1" ELSE NoFile]
    /\ dirs = {}
    /\ store = [n \in Names |-> <<>>]
    /\ edits = 0
    /\ savers = <<>>
    /\ result = [op |-> "env"]
    /\ returned = [n \in Names |-> <<>>]
    /\ GateIdle
    /\ \E g \in { <<DEFAULT_CHUNK_CHAR_SIZE, DEFAULT_OVERLAP_CHARS>>, <<2, 1>>, <<3, 1>> } :
          CHUNK_CHAR_SIZE = g[1] /\ OVERLAP_CHARS = g[2]
    /\ ck_text = <<>> /\ ck_size = 0 /\ ck_overlap = 0
    /\ ck_start = 0 /\ ck_chunks = <<>> /\ ck_offsets = <<>> /\ ck_pc = "idle"
    /\ mr_text \in Documents(MaxDocLen)
    /\ mr_model \in {SONNET, "model-a"}
    /\ mr_word_count = 50
    /\ mr_chunks = <<>> /\ total_input = 0 /\ total_output = 0
    /\ chunk_summaries = <<>> /\ mr_usages = <<>>
    /\ mr_pc = "call"

NextMapReduce ==
    \/ MapReduceEnter
    \/ \E out \in MapReduceOutcomes : MapCall(out)
    \/ \E out \in MapReduceOutcomes : ReduceCall(out)

SpecMapReduce == InitMapReduce /\ [][NextMapReduce]_vars

(***************************************************************************)
(* doc/analyzer.py: summarize_document and the reply parser.  A document   *)
(* is "x" * len and is held as its length; a reply text is held as the     *)
(* sequence of its tokens (a fence, the word json, white space, a body).   *)
(***************************************************************************)
CHARS_PER_TOKEN == 4
MAX_CONTEXT_TOKENS == 180000

\* Mutant of estimate_tokens: the length is not divided.
MutEstimateIsLength(text) == text.len

\* len(text) // CHARS_PER_TOKEN
estimate_tokens(text) == text.len \div CHARS_PER_TOKEN

\* len(content.split()) of "x" * len
word_count_of(text) == IF text.len = 0 THEN 0 ELSE 1

\* len(text[start:end]) for a text of n characters
slice_len(n, start, end) ==
    LET norm(i) == IF i < 0 THEN (IF i + n < 0 THEN 0 ELSE i + n)
                   ELSE IF i > n THEN n ELSE i
    IN IF norm(start) >= norm(end) THEN 0 ELSE norm(end) - norm(start)

\* The while loop of chunk_text on a text held as its length.
RECURSIVE chunk_loop_len(_, _, _, _, _)
chunk_loop_len(n, chunk_size, overlap, start, chunks) ==
    IF ~(start < n) THEN chunks
    ELSE LET end == chunk_end(start, chunk_size, overlap)
             appended == Append(chunks, [len |-> slice_len(n, start, end)])
             start1 == next_start(end, overlap)
         IN IF start1 + overlap >= n THEN appended
            ELSE chunk_loop_len(n, chunk_size, overlap, start1, appended)

\* chunk_text(text) on a text held as its length
chunk_text_len(text, chunk_size, overlap) ==
    IF text.len <= chunk_size THEN <<text>>
    ELSE chunk_loop_len(text.len, chunk_size, overlap, 0, <<>>)

\* The token of three backquotes that opens or closes a code block.
FENCE == "<fence>"
SummaryObject == "{\"executive_summary\": \"E\", \"sections\": [\"x\"]}"
OtherObject == "{\"other\": 1}"

\* The reply texts of the single summarize call: an object, an object in a
\* closed json fence, in a closed plain fence, in a fence never closed, an
\* object padded with white space, an object without the fields, JSON that is
\* no object, and prose longer than 500 characters.
SummarizeReplyTexts ==
    { [body |-> <<SummaryObject>>, len |-> 45],
      [body |-> <<FENCE, "json", "\n", SummaryObject, "\n", FENCE>>, len |-> 57],
      [body |-> <<FENCE, "\n", SummaryObject, "\n", FENCE>>, len |-> 53],
      [body |-> <<FENCE, "json", "\n", SummaryObject>>, len |-> 53],
      [body |-> <<" ", SummaryObject, "\n">>, len |-> 47],
      [body |-> <<OtherObject>>, len |-> 12],
      [body |-> <<"[1]">>, len |-> 3],
      [body |-> <<"prose">>, len |-> 600] }

SummarizeOutcomes ==
    {[text |-> t, input_tokens |-> 100, output_tokens |-> 50] : t \in SummarizeReplyTexts}
        \cup {ClientError}

\* stripped.index(tok, start): the first position from start on, 0 for ValueError
index_from(s, tok, start) ==
    LET hits == {i \in start..Len(s) : s[i] = tok}
    IN IF hits = {} THEN 0 ELSE Min(hits)

\* The positions where a fence followed at once by the word json begins.
json_fences(s) == {i \in 1..(Len(s) - 1) : s[i] = FENCE /\ s[i + 1] = "json"}

\* json.loads of a stripped reply
json_loads_tokens(s) ==
    CASE s = <<SummaryObject>> ->
           [kind |-> "dict", fields |-> [executive_summary |-> "E", sections |-> <<"x">>]]
      [] s = <<OtherObject>> -> [kind |-> "dict", fields |-> [other |-> 1]]
      [] s = <<"[1]">> -> [kind |-> "list"]
      [] OTHER -> [kind |-> "JSONDecodeError"]

\* try: return json.loads(stripped); except json.JSONDecodeError: return {}
loads_or_empty(s) ==
    LET loaded == json_loads_tokens(s)
    IN IF loaded.kind = "JSONDecodeError"
       THEN [kind |-> "dict", fields |-> [k \in {} |-> 0]]
       ELSE loaded

\* _parse_json_response(text): what it returns, or the ValueError of str.index
parse_json_response(text) ==
    LET stripped == strip(text)
    IN IF json_fences(stripped) # {}
       THEN LET start == Min(json_fences(stripped)) + 2
                end == index_from(stripped, FENCE, start)
            IN IF end = 0 THEN [kind |-> "ValueError"]
               ELSE loads_or_empty(strip(SubSeq(stripped, start, end - 1)))
       ELSE IF index_from(stripped, FENCE, 1) # 0
       THEN LET start == index_from(stripped, FENCE, 1) + 1
                end == index_from(stripped, FENCE, start)
            IN IF end = 0 THEN [kind |-> "ValueError"]
               ELSE loads_or_empty(strip(SubSeq(stripped, start, end - 1)))
       ELSE loads_or_empty(stripped)

\* summarize_document up to its first generation call: the document is read,
\* the tokens are estimated, and either map_reduce_summarize is entered or the
\* single call is prepared.
SummarizeEnter ==
    /\ mr_pc = "summarize"
    /\ IF mr_text.kind = "missing"
       THEN /\ result' = [op |-> "summarize", error |-> "DocError",
                          msg |-> "File not found"]
            /\ mr_pc' = "failed"
            /\ UNCHANGED <<mr_chunks, mr_word_count>>
       ELSE /\ mr_word_count' = word_count_of(mr_text)
            /\ UNCHANGED result
            /\ IF estimate_tokens(mr_text) > MAX_CONTEXT_TOKENS
               THEN /\ mr_chunks' = chunk_text_len(mr_text, CHUNK_CHAR_SIZE, OVERLAP_CHARS)
                    /\ mr_pc' = IF mr_chunks' = <<>> THEN "reduce" ELSE "map"
               ELSE /\ mr_chunks' = <<>>
                    /\ mr_pc' = "single"
    /\ total_input' = 0
    /\ total_output' = 0
    /\ chunk_summaries' = <<>>
    /\ UNCHANGED <<license_env, versioner_vars, gate_vars, chunk_vars,
                   mr_text, mr_model, mr_usages>>

\* The single generation call of summarize_document and the DocSummary returned.
SummarizeCall(out) ==
    /\ mr_pc = "single"
    /\ sent' = Append(sent, [model |-> mr_model, system |-> "SUMMARIZE_SYSTEM_PROMPT",
                             content |-> mr_text, max_tokens |-> 4096])
    /\ IF raised(out)
       THEN /\ result' = [op |-> "summarize"] @@ out
            /\ mr_pc' = after_raise(mr_pc)
            /\ UNCHANGED mr_usages
       ELSE LET res == PromptResult(mr_model, out @@ [latency_ms |-> 0])
                data == parse_json_response(res.response.body)
            IN /\ mr_usages' = Append(mr_usages,
                                      [input_tokens |-> out.input_tokens,
                                       output_tokens |-> out.output_tokens])
               /\ CASE data.kind = "ValueError" ->
                         /\ result' = [op |-> "summarize", error |-> "ValueError",
                                       msg |-> "substring not found"]
                         /\ mr_pc' = "failed"
                    [] data.kind = "dict" ->
                         /\ result' =
                              [op |-> "summarize",
                               value |->
                                 [executive_summary |->
                                    dict_get(data, "executive_summary",
                                             first_500(res.response)),
                                  sections |-> dict_get(data, "sections", <<>>),
                                  word_count |-> mr_word_count,
                                  model |-> mr_model,
                                  input_tokens |-> res.input_tokens,
                                  output_tokens |-> res.output_tokens,
                                  cost_usd |-> res.cost_usd,
                                  chunks_processed |-> 1]]
                         /\ mr_pc' = "done"
                    [] OTHER ->      \* data.get on a value that is no dict
                         /\ result' = [op |-> "summarize", error |-> "AttributeError",
                                       msg |-> "object has no attribute 'get'"]
                         /\ mr_pc' = "failed"
    /\ UNCHANGED <<license_env, versioner_vars, calls, chunk_vars, mr_text, mr_model,
                   mr_word_count, mr_chunks, total_input, total_output, chunk_summaries>>

\* The documents summarize_document is given: a path with no file, and files
\* of "x" whose lengths lie at and just above the multiples of the ceiling.
SummarizeDocuments ==
    {[kind |-> "missing", len |-> 0]} \cup
    {[kind |-> "file", len |-> k * (MAX_CONTEXT_TOKENS * CHARS_PER_TOKEN) + e] :
        k \in 0..MaxDocScale, e \in 0..MaxDocExtra}

\* A call summarize_document(path, model) about to run.
InitSummarize ==
    /\ license_env = <<>>
    /\ templates = [p \in TemplatePaths |-> IF p.stem = "a" THEN "c1" ELSE NoFile]
    /\ dirs = {}
    /\ store = [n \in Names |-> <<>>]
    /\ edits = 0
    /\ savers = <<>>
    /\ result = [op |-> "env"]
    /\ returned = [n \in Names |-> <<>>]
    /\ GateIdle
    /\ CHUNK_CHAR_SIZE = DEFAULT_CHUNK_CHAR_SIZE
    /\ OVERLAP_CHARS = DEFAULT_OVERLAP_CHARS
    /\ ck_text = <<>> /\ ck_size = 0 /\ ck_overlap = 0
    /\ ck_start = 0 /\ ck_chunks = <<>> /\ ck_offsets = <<>> /\ ck_pc = "idle"
    /\ mr_text \in SummarizeDocuments
    /\ mr_model = SONNET
    /\ mr_word_count = 0
    /\ mr_chunks = <<>> /\ total_input = 0 /\ total_output = 0
    /\ chunk_summaries = <<>> /\ mr_usages = <<>>
    /\ mr_pc = "summarize"

NextSummarize ==
    \/ SummarizeEnter
    \/ \E out \in SummarizeOutcomes : SummarizeCall(out)
    \/ \E out \in MapReduceOutcomes : MapCall(out)
    \/ \E out \in MapReduceOutcomes : ReduceCall(out)

SpecSummarize == InitSummarize /\ [][NextSummarize]_vars

(***************************************************************************)
(* Claims about map_reduce_summarize, checked under SpecMapReduce.         *)
(***************************************************************************)
RECURSIVE SumInput(_)
SumInput(usages) ==
    IF usages = <<>> THEN 0 ELSE Head(usages).input_tokens + SumInput(Tail(usages))

RECURSIVE SumOutput(_)
SumOutput(usages) ==
    IF usages = <<>> THEN 0 ELSE Head(usages).output_tokens + SumOutput(Tail(usages))

\* C10: the summary map_reduce_summarize returns reports as input_tokens the
\* sum of the input token counts of all its generation calls, one map call
\* per chunk and the reduce call, and as output_tokens the sum of their output
\* token counts.
C10_TokensSummedOverAllCalls ==
    mr_pc = "done" =>
        /\ Len(mr_usages) = Len(mr_chunks) + 1
        /\ result.value.input_tokens = SumInput(mr_usages)
        /\ result.value.output_tokens = SumOutput(mr_usages)
        /\ result.value.chunks_processed = Len(mr_chunks)

\* C10 witness: two map calls of (100, 50) and a reduce call of (80, 60) gave
\* 280 and 160.
C10_Witness ==
    /\ mr_pc = "done"
    /\ mr_usages = << [input_tokens |-> 100, output_tokens |-> 50],
                      [input_tokens |-> 100, output_tokens |-> 50],
                      [input_tokens |-> 80, output_tokens |-> 60] >>
    /\ result.value.input_tokens = 280
    /\ result.value.output_tokens = 160
    /\ result.value.chunks_processed = 2

\* A generation call of map_reduce_summarize has failed.
GenerationFailed ==
    /\ result.op = "map_reduce" /\ raised(result) /\ result.error = "ClientError"

\* C11: when a generation call of map_reduce_summarize fails (the map call of
\* some chunk, or the reduce call), the operation fails at once with that
\* error: the call that failed was issued once, every call before it once, no
\* generation call follows, and no summary is returned.
C11_FailedCallAbortsWhole ==
    /\ [](GenerationFailed =>
            /\ mr_pc = "failed"
            /\ "value" \notin DOMAIN result
            /\ Len(sent) = Len(mr_usages) + 1
            /\ Len(sent) <= Len(mr_chunks) + 1)
    /\ [][GenerationFailed => (sent' = sent /\ result' = result)]_vars

\* C11 witness: of three chunks the first was summarized, the map call of the
\* second failed, and the call for the third and the reduce call were never made.
C11_Witness ==
    /\ GenerationFailed
    /\ Len(mr_chunks) = 3
    /\ Len(chunk_summaries) = 1
    /\ Len(sent) = 2
    /\ sent[2].system = "CHUNK_SUMMARIZE_PROMPT"

(***************************************************************************)
(* Claims about summarize_document, checked under SpecSummarize.           *)
(***************************************************************************)
\* C12: whatever text the model replies with (an object with or without the
\* fields, JSON that is no object, a closed or an unclosed code fence, prose),
\* the operations that parse replies do not raise because of it: a call that
\* fails fails for a generation error or an unreadable document, never for a
\* ValueError or AttributeError out of the parsing.
C12_ReplyNeverCrashes ==
    mr_pc = "failed" =>
        /\ raised(result)
        /\ result.error \in {"ClientError", "DocError"}

\* C13: a summary summarize returns has chunks_processed >= 1; when
\* len(text) // 4 > 180000 it was made by map-reduce, one map call per chunk
\* and one reduce call, and chunks_processed is the number of chunks; otherwise
\* exactly one generation call was made and chunks_processed is 1.
C13_ChunksProcessedAtLeastOne ==
    (mr_pc = "done" /\ result.op \in {"summarize", "map_reduce"}) =>
        LET maps == {i \in 1..Len(sent) : sent[i].system = "CHUNK_SUMMARIZE_PROMPT"}
            reduces == {i \in 1..Len(sent) : sent[i].system = "REDUCE_PROMPT"}
            singles == {i \in 1..Len(sent) : sent[i].system = "SUMMARIZE_SYSTEM_PROMPT"}
        IN /\ result.value.chunks_processed >= 1
           /\ IF mr_text.len \div 4 > 180000
              THEN /\ result.value.chunks_processed = Len(mr_chunks)
                   /\ Cardinality(maps) = Len(mr_chunks)
                   /\ Cardinality(reduces) = 1
                   /\ singles = {}
              ELSE /\ result.value.chunks_processed = 1
                   /\ Len(sent) = 1
                   /\ singles = {1}

\* C13 witness: a document of 720004 characters, the shortest whose estimate is
\* above the ceiling, was summarized from two chunks.
C13_Witness ==
    /\ mr_pc = "done"
    /\ mr_text.len = 720004
    /\ result.value.chunks_processed = 2
    /\ Len(sent) = 3

(***************************************************************************)
(* licensing.py as called by the tests: generate_key, validate_key and     *)
(* get_license applied to bounded sets of bodies and keys.                 *)
(***************************************************************************)
\* The keys validate_key is given (tests/test_licensing.py and variants of
\* them): the empty key, then
\*   the default key, valid: PCTL-TEST-KEY0-F435
\*   valid, padded with white space:   PCTL-TEST-KEY0-F435<newline>
\*   valid, checksum in lower case: PCTL-ABCD-EFGH-efca
\*   valid, checksum in mixed case: PCTL-ABCD-EFGH-eFcA
\*   valid, body in lower case: PCTL-abcd-efgh-C7F7
\*   white space only:   
\*   three segments: PCTL-1234-5678
\*   five segments: PCTL-1234-5678-ABCD-EXTRA
\*   five segments, the last four a valid key: X-PCTL-TEST-KEY0-F435
\*   wrong prefix, right checksum: ASPD-1234-5678-477C
\*   wrong prefix and wrong checksum: ASPD-1234-5678-ABCD
\*   prefix in lower case: pctl-TEST-KEY0-F435
\*   prefix followed by a blank: PCTL -TEST-KEY0-F435
\*   wrong checksum: PCTL-1234-5678-ZZZZ
\*   wrong checksum: PCTL-XXXX-YYYY-ZZZZ
\*   checksum of another body: PCTL-ABCD-EFGH-F435
\*   checksum followed by a character: PCTL-TEST-KEY0-F4350
LicenseKeys ==
    { <<>>,
      <<"P","C","T","L","-","T","E","S","T","-","K","E","Y","0","-","F","4","3","5">>,
      <<" "," ","P","C","T","L","-","T","E","S","T","-","K","E","Y","0","-","F","4","3","5","\n">>,
      <<"P","C","T","L","-","A","B","C","D","-","E","F","G","H","-","e","f","c","a">>,
      <<"P","C","T","L","-","A","B","C","D","-","E","F","G","H","-","e","F","c","A">>,
      <<"P","C","T","L","-","a","b","c","d","-","e","f","g","h","-","C","7","F","7">>,
      <<" "," ">>,
      <<"P","C","T","L","-","1","2","3","4","-","5","6","7","8">>,
      <<"P","C","T","L","-","1","2","3","4","-","5","6","7","8","-","A","B","C","D","-","E","X","T","R","A">>,
      <<"X","-","P","C","T","L","-","T","E","S","T","-","K","E","Y","0","-","F","4","3","5">>,
      <<"A","S","P","D","-","1","2","3","4","-","5","6","7","8","-","4","7","7","C">>,
      <<"A","S","P","D","-","1","2","3","4","-","5","6","7","8","-","A","B","C","D">>,
      <<"p","c","t","l","-","T","E","S","T","-","K","E","Y","0","-","F","4","3","5">>,
      <<"P","C","T","L"," ","-","T","E","S","T","-","K","E","Y","0","-","F","4","3","5">>,
      <<"P","C","T","L","-","1","2","3","4","-","5","6","7","8","-","Z","Z","Z","Z">>,
      <<"P","C","T","L","-","X","X","X","X","-","Y","Y","Y","Y","-","Z","Z","Z","Z">>,
      <<"P","C","T","L","-","A","B","C","D","-","E","F","G","H","-","F","4","3","5">>,
      <<"P","C","T","L","-","T","E","S","T","-","K","E","Y","0","-","F","4","3","5","0">> }

\* The bodies generate_key is given, besides None: bodies of two segments,
\* of one, of three, and the empty body.
KeyBodies ==
    { <<"T","E","S","T","-","K","E","Y","0">>,
      <<"X","X","X","X","-","Y","Y","Y","Y">>,
      <<"A","B","C","D","-","E","F","G","H">>,
      <<"a","b","c","d","-","e","f","g","h">>,
      <<"A","B","C","D">>,
      <<"A","-","B","-","C">>,
      <<>> }

\* key = generate_key(body)
GenerateKey(body) ==
    /\ result' = [op |-> "generate_key", body |-> body, key |-> generate_key(body)]
    /\ UNCHANGED <<license_env, versioner_vars, gate_vars, chunk_vars, mr_vars>>

\* validate_key(key): the LicenseInfo returned or the LicenseError raised
ValidateKey(key) ==
    /\ result' = [op |-> "validate_key", arg |-> key] @@ validate_key(key)
    /\ UNCHANGED <<license_env, versioner_vars, gate_vars, chunk_vars, mr_vars>>

\* get_license() under the environment as it is
GetLicense ==
    /\ result' = [op |-> "get_license", env |-> license_env] @@ get_license(license_env)
    /\ UNCHANGED <<license_env, versioner_vars, gate_vars, chunk_vars, mr_vars>>

InitLicense ==
    /\ license_env = <<>>
    /\ templates = [p \in TemplatePaths |-> IF p.stem = "a" THEN "c1" ELSE NoFile]
    /\ dirs = {}
    /\ store = [n \in Names |-> <<>>]
    /\ edits = 0
    /\ savers = <<>>
    /\ result = [op |-> "env"]
    /\ returned = [n \in Names |-> <<>>]
    /\ GateIdle
    /\ ChunkIdle

NextLicense ==
    \/ \E k \in LicenseKeys : SetLicense(k)
    \/ GenerateKey(None)
    \/ \E body \in KeyBodies : GenerateKey(body)
    \/ \E key \in LicenseKeys : ValidateKey(key)
    \/ GetLicense

SpecLicense == InitLicense /\ [][NextLicense]_vars

(***************************************************************************)
(* Claims about licensing.py, checked under SpecLicense.                   *)
(***************************************************************************)
\* C14: for any body string, and for the default body used when none is
\* given, validate_key(generate_key(body)) succeeds and reports PRO tier.
C14_GenerateValidateRoundTrip ==
    result.op = "generate_key" =>
        LET info == validate_key(result.key)
        IN ~raised(info) /\ info.tier = PRO

\* The segments of a key with exactly three hyphens.
SegmentsOf(k) ==
    LET h == {i \in 1..Len(k) : k[i] = "-"}
        h1 == Min(h)
        h3 == Max(h, 0)
        h2 == CHOOSE i \in h : i # h1 /\ i # h3
    IN << SubSeq(k, 1, h1 - 1), SubSeq(k, h1 + 1, h2 - 1),
          SubSeq(k, h2 + 1, h3 - 1), SubSeq(k, h3 + 1, Len(k)) >>

\* The first failure that applies to a key, "" when none does.
FirstFailure(key) ==
    LET k == strip(key)
        hyphens == Cardinality({i \in 1..Len(k) : k[i] = "-"})
    IN IF key = <<>> THEN "Empty license key"
       ELSE IF hyphens # 3 THEN "Invalid key format"
       ELSE IF SegmentsOf(k)[1] # <<"P","C","T","L">> THEN "Invalid key prefix"
       ELSE IF upper(SegmentsOf(k)[4]) #
                 upper(compute_checksum(SegmentsOf(k)[2] \o <<"-">> \o SegmentsOf(k)[3]))
            THEN "Invalid license key checksum"
       ELSE ""

\* C15: validate_key(key) returns PRO tier exactly when the key, surrounding
\* white space removed, has four hyphen-separated segments, the first equal to
\* PCTL and the fourth equal, letter case ignored, to the checksum of
\* segment2-segment3; otherwise it raises LicenseError for the first failure
\* that applies of: empty key, segment count, prefix, checksum.
C15_ValidateAcceptsExactlyWellFormed ==
    result.op = "validate_key" =>
        IF FirstFailure(result.arg) = ""
        THEN ~raised(result) /\ result.tier = PRO /\ result.key = result.arg
        ELSE /\ raised(result) /\ result.error = "LicenseError"
             /\ result.msg = FirstFailure(result.arg)

\* C15 witness: the key PCTL-ABCD-EFGH-eFcA, its checksum in mixed case, was
\* accepted.
C15_Witness ==
    /\ result.op = "validate_key"
    /\ result.arg = <<"P","C","T","L","-","A","B","C","D","-","E","F","G","H","-","e","F","c","A">>
    /\ ~raised(result) /\ result.tier = PRO

\* C16: get_license never raises; it returns FREE tier when the environment
\* variable is absent or empty or holds a key validate_key rejects, and PRO
\* tier exactly when it holds a key validate_key accepts.
C16_GetLicenseNeverFails ==
    result.op = "get_license" =>
        /\ ~raised(result)
        /\ result.tier \in {FREE, PRO}
        /\ result.tier = PRO <=>
             (result.env # <<>> /\ FirstFailure(result.env) = "")

\* C16 witness: with PCTL-XXXX-YYYY-ZZZZ in the environment get_license
\* returned FREE tier.
C16_Witness ==
    /\ result.op = "get_license"
    /\ result.env = <<"P","C","T","L","-","X","X","X","X","-","Y","Y","Y","Y","-","Z","Z","Z","Z">>
    /\ ~raised(result) /\ result.tier = FREE

(***************************************************************************)
(* lint/checker.py.  A file's content is held as its lines together with   *)
(* the node graph PyYAML's composer builds from them (or the syntax error  *)
(* it raises); the loader's construction, the duplicate-key detection and  *)
(* the checks are computed from those.                                     *)
(***************************************************************************)
\* YAML nodes: scalars by their resolved tag, sequences, mappings.
ScalarNode(tag, value) == [kind |-> "scalar", tag |-> tag, value |-> value, items |-> <<>>]
StrNode(value) == ScalarNode("str", value)
IntNode(value) == ScalarNode("int", value)
NullNode == ScalarNode("null", "")
UndefinedTagNode == ScalarNode("undefined", "x")
SeqNode(items) == [kind |-> "seq", tag |-> "seq", value |-> "", items |-> items]
MapNode(pairs) == [kind |-> "map", tag |-> "map", value |-> "", items |-> pairs]
Pair(key, val) == [key |-> key, val |-> val]
\* The empty stream: get_single_node() returns None.
NoNode == [kind |-> "none", tag |-> "none", value |-> "", items |-> <<>>]

\* Python values: str, int, None, list, dict (pairs in insertion order).
PyScalar(type, value) == [type |-> type, value |-> value, items |-> <<>>]
PyNone == PyScalar("NoneType", "")
PyStr(value) == PyScalar("str", value)
PyList(items) == [type |-> "list", value |-> "", items |-> items]
PyDict(pairs) == [type |-> "dict", value |-> "", items |-> pairs]

\* mapping[key] = value
dict_set(pairs, key, val) ==
    IF \E i \in 1..Len(pairs) : pairs[i].key = key
    THEN [i \in 1..Len(pairs) |-> IF pairs[i].key = key THEN Pair(key, val) ELSE pairs[i]]
    ELSE Append(pairs, Pair(key, val))

\* field in data
dict_has(data, field) == \E i \in 1..Len(data.items) : data.items[i].key = PyStr(field)

\* data.get(field): the value, None when absent
dict_lookup(data, field) ==
    IF dict_has(data, field)
    THEN data.items[CHOOSE i \in 1..Len(data.items) : data.items[i].key = PyStr(field)].val
    ELSE PyNone

\* The object the constructor builds for a node whose construction raises nothing.
RECURSIVE construct_object(_)
RECURSIVE construct_pairs(_, _)
construct_pairs(pairs, built) ==
    IF pairs = <<>> THEN built
    ELSE construct_pairs(Tail(pairs),
                         dict_set(built, construct_object(Head(pairs).key),
                                  construct_object(Head(pairs).val)))

construct_object(node) ==
    CASE node.kind = "none" -> PyNone
      [] node.kind = "scalar" ->
           IF node.tag = "null" THEN PyNone ELSE PyScalar(node.tag, node.value)
      [] node.kind = "seq" ->
           PyList([i \in 1..Len(node.items) |-> construct_object(node.items[i])])
      [] node.kind = "map" -> PyDict(construct_pairs(node.items, <<>>))

\* _DuplicateKeyLoader.construct_mapping: for key_node, _ in node.value:
\* if key in keys: self.duplicates.append(str(key)); keys.add(key)
RECURSIVE duplicates_of(_, _)
duplicates_of(pairs, keys) ==
    IF pairs = <<>> THEN <<>>
    ELSE LET key == construct_object(Head(pairs).key)
         IN (IF key \in keys THEN <<key.value>> ELSE <<>>)
              \o duplicates_of(Tail(pairs), keys \cup {key})

\* The containers a container's construction defers to the next round of
\* construct_document's state generators.
child_containers(node) ==
    LET vals == IF node.kind = "map"
                THEN [i \in 1..Len(node.items) |-> node.items[i].val]
                ELSE node.items
    IN SelectSeq(vals, LAMBDA n : n.kind \in {"map", "seq"})

RECURSIVE Flatten(_)
Flatten(seqs) == IF seqs = <<>> THEN <<>> ELSE Head(seqs) \o Flatten(Tail(seqs))

\* What constructing one container raises, and at which key: in the loop over
\* the keys a key with an undefined tag has no constructor (ConstructorError, a
\* YAMLError) and a key that is a list or a dict is looked up in the set of
\* keys (TypeError: unhashable type); after it, in super().construct_mapping or
\* construct_sequence, a value with an undefined tag has no constructor.
container_error(node) ==
    LET bad_keys ==
            IF node.kind # "map" THEN {}
            ELSE {i \in 1..Len(node.items) :
                    \/ node.items[i].key.tag = "undefined"
                    \/ node.items[i].key.kind \in {"map", "seq"}}
        vals == IF node.kind = "map"
                THEN [i \in 1..Len(node.items) |-> node.items[i].val]
                ELSE node.items
    IN IF bad_keys # {}
       THEN LET i == Min(bad_keys)
            IN [error |-> IF node.items[i].key.tag = "undefined"
                          THEN "ConstructorError" ELSE "TypeError",
                keys_done |-> i - 1]
       ELSE IF \E i \in 1..Len(vals) : vals[i].tag = "undefined"
       THEN [error |-> "ConstructorError", keys_done |-> Len(node.items)]
       ELSE [error |-> "", keys_done |-> Len(node.items)]

\* construct_document: the root, then round after round the containers
\* deferred by the round before.  The loader's duplicates, in the order of
\* construction, and the first exception raised ("" for none).
RECURSIVE construct_rounds(_, _, _)
construct_rounds(frontier, deferred, duplicates) ==
    IF frontier = <<>>
    THEN IF deferred = <<>> THEN [error |-> "", duplicates |-> duplicates]
         ELSE construct_rounds(deferred, <<>>, duplicates)
    ELSE LET node == Head(frontier)
             outcome == container_error(node)
             found == IF node.kind = "map"
                      THEN duplicates_of(SubSeq(node.items, 1, outcome.keys_done), {})
                      ELSE <<>>
         IN IF outcome.error # ""
            THEN [error |-> outcome.error, duplicates |-> duplicates \o found]
            ELSE construct_rounds(Tail(frontier), deferred \o child_containers(node),
                                  duplicates \o found)

\* loader.get_single_data(): the data, the loader's duplicates, the exception
get_single_data(content) ==
    IF content.syntax # "ok"
    THEN [error |-> content.syntax, duplicates |-> <<>>, data |-> PyNone]
    ELSE IF content.root.tag = "undefined"
    THEN [error |-> "ConstructorError", duplicates |-> <<>>, data |-> PyNone]
    ELSE LET rounds == construct_rounds(
                          IF content.root.kind \in {"map", "seq"}
                          THEN <<content.root>> ELSE <<>>, <<>>, <<>>)
         IN IF rounds.error # ""
            THEN [error |-> rounds.error, duplicates |-> rounds.duplicates, data |-> PyNone]
            ELSE [error |-> "", duplicates |-> rounds.duplicates,
                  data |-> construct_object(content.root)]

\* SECRET_PATTERNS: the patterns (numbered from 1 in list order) that
\* pattern.search(line) finds in a line, tabulated from the real expressions.
secret_matches(line) ==
    CASE line = "api_key: 'sk-ant-abcdefghijklmnop'" -> {1, 3}
      [] line = "key: 'sk-ant-abcdefghijklmnop'" -> {1}
      [] line = "secret: 'sk-abcdefghijklmnopqrstuvwxyz'" -> {2, 5}
      [] line = "password: 'my_secret_password'" -> {4}
      [] line = "- password: 'my_secret_password'" -> {4}
      [] OTHER -> {}

MAX_NESTING_DEPTH == 6

\* rules.py RULES: the severity of each rule
rule_severity(rule_id) ==
    CASE rule_id \in {"L001", "L002", "L004", "L006"} -> "error"
      [] rule_id \in {"L003", "L005", "L008"} -> "warning"
      [] rule_id = "L007" -> "info"

\* LintViolation(rule_id, file, message, severity, line); line 0 stands for None
LintViolation(rule_id, path, message, line) ==
    [rule_id |-> rule_id, file |-> path, message |-> message,
     severity |-> rule_severity(rule_id), line |-> line]

\* _measure_depth(obj, current)
RECURSIVE measure_depth(_, _)
measure_depth(obj, current) ==
    IF obj.type \in {"dict", "list"}
    THEN IF obj.items = <<>> THEN current + 1
         ELSE Max({measure_depth(IF obj.type = "dict" THEN obj.items[i].val
                                 ELSE obj.items[i], current + 1) :
                      i \in 1..Len(obj.items)}, 0)
    ELSE current

\* _build_summary: "No issues found.", or the clauses joined by ", " and a "."
build_summary(violations) ==
    LET count(sev) == Cardinality({i \in 1..Len(violations) : violations[i].severity = sev})
        errors == count("error")
        warnings == count("warning")
        infos == count("info")
    IN IF violations = <<>> THEN [text |-> "No issues found.", clauses |-> <<>>]
       ELSE [text |-> "",
             clauses |->
               (IF errors > 0
                THEN <<[count |-> errors,
                        word |-> IF errors > 1 THEN "errors" ELSE "error"]>> ELSE <<>>)
               \o (IF warnings > 0
                   THEN <<[count |-> warnings,
                           word |-> IF warnings > 1 THEN "warnings" ELSE "warning"]>>
                   ELSE <<>>)
               \o (IF infos > 0 THEN <<[count |-> infos, word |-> "info"]>> ELSE <<>>)]

LintReport(violations, summary, path) ==
    [violations |-> violations, summary |-> summary, file_path |-> path]

\* _load_yaml_with_duplicates past the load: one L004 violation per entry of
\* loader.duplicates
duplicate_violations(dupes, path) ==
    [i \in 1..Len(dupes) |->
        LintViolation("L004", path, <<"Duplicate key: '", dupes[i], "'.">>, 0)]

\* _check_missing_field
check_missing_field(data, field, rule_id, path) ==
    IF ~dict_has(data, field)
    THEN <<LintViolation(rule_id, path, <<"Missing '", field, "' field.">>, 0)>>
    ELSE <<>>

\* The names a text mentions as {{name}} or {name}.
references(text) ==
    CASE text = "Hello {{user}}" -> {"user"}
      [] text = "Hello {user}" -> {"user"}
      [] OTHER -> {}

\* The strings _check_unused_variables gathers into text_fields.
text_fields_of(data) ==
    LET pieces(val) ==
            CASE val.type = "str" -> <<val.value>>
              [] val.type = "list" ->
                   Flatten([i \in 1..Len(val.items) |->
                      CASE val.items[i].type = "dict" ->
                             <<dict_lookup(val.items[i], "content").value>>
                        [] val.items[i].type = "str" -> <<val.items[i].value>>
                        [] OTHER -> <<>>])
              [] OTHER -> <<>>
    IN pieces(dict_lookup(data, "prompt")) \o pieces(dict_lookup(data, "system"))
         \o pieces(dict_lookup(data, "template")) \o pieces(dict_lookup(data, "messages"))

\* _check_unused_variables
check_unused_variables(data, path) ==
    LET variables == IF dict_has(data, "variables")
                     THEN dict_lookup(data, "variables") ELSE PyDict(<<>>)
        texts == text_fields_of(data)
        used(name) == \E i \in 1..Len(texts) : name \in references(texts[i])
    IN IF variables.type # "dict" THEN <<>>
       ELSE Flatten([i \in 1..Len(variables.items) |->
               IF used(variables.items[i].key.value) THEN <<>>
               ELSE <<LintViolation("L005", path,
                        <<"Variable '", variables.items[i].key.value,
                          "' defined but not used in prompt.">>, 0)>>])

\* Mutant of line_violations: no break, one violation per pattern that matches.
MutLineViolationsPerPattern(line, i, path) ==
    [k \in 1..Cardinality(secret_matches(line)) |->
        LintViolation("L006", path, <<"Potential hardcoded secret detected.">>, i)]

\* for pattern in SECRET_PATTERNS: if pattern.search(line): append; break
line_violations(line, i, path) ==
    IF secret_matches(line) # {}
    THEN <<LintViolation("L006", path, <<"Potential hardcoded secret detected.">>, i)>>
    ELSE <<>>

\* _check_hardcoded_secrets: for i, line in enumerate(content.splitlines(), 1)
check_hardcoded_secrets(lines, path) ==
    Flatten([i \in 1..Len(lines) |-> line_violations(lines[i], i, path)])

\* re.match(r"^[a-z][a-z0-9_-]*$", name), tabulated from the real expression
name_matches(name) == name \in {"test", "first", "second", "my-prompt", "x"}

\* _check_naming_convention
check_naming_convention(data, path) ==
    LET name == dict_lookup(data, "name")
    IN IF name.type # "str" THEN <<>>
       ELSE IF ~name_matches(name.value)
       THEN <<LintViolation("L007", path,
                <<"Name '", name.value, "' should be lowercase with hyphens/underscores.">>,
                0)>>
       ELSE <<>>

\* _check_deep_nesting
check_deep_nesting(data, path) ==
    IF measure_depth(data, 0) > MAX_NESTING_DEPTH
    THEN <<LintViolation("L008", path, <<"Nesting depth exceeds maximum.">>, 0)>>
    ELSE <<>>

\* Mutant of violations_at_error: the duplicates the loader had recorded when
\* the load failed are reported too.
MutDuplicatesKeptAtError(dupes, path) == duplicate_violations(dupes, path)

\* The violations list when yaml.YAMLError reaches check_file: the exception
\* left _load_yaml_with_duplicates before it read loader.duplicates.
violations_at_error(dupes, path) == <<>>

\* check_file past the reading of the file: the report returned, or the
\* exception that leaves it
\* Mutant of mapping_checks: the naming check is skipped when an earlier
\* check has found something.
MutNamingOnlyWhenClean(violations, data, content, path) ==
    LET before == violations
                    \o check_missing_field(data, "name", "L002", path)
                    \o check_missing_field(data, "version", "L003", path)
                    \o check_unused_variables(data, path)
                    \o check_hardcoded_secrets(content.lines, path)
    IN before
         \o (IF before = <<>> THEN check_naming_convention(data, path) ELSE <<>>)
         \o check_deep_nesting(data, path)

\* The checks check_file runs on a mapping, each appending to the violations
\* gathered so far: L002, L003, L005, L006, L007, L008.
mapping_checks(violations, data, content, path) ==
    violations
      \o check_missing_field(data, "name", "L002", path)
      \o check_missing_field(data, "version", "L003", path)
      \o check_unused_variables(data, path)
      \o check_hardcoded_secrets(content.lines, path)
      \o check_naming_convention(data, path)
      \o check_deep_nesting(data, path)

check_content(content, path) ==
    LET loaded == get_single_data(content)
        data == loaded.data
        violations == duplicate_violations(loaded.duplicates, path)
    IN IF loaded.error \in {"ParserError", "ConstructorError"}
       THEN [value |-> LintReport(
                Append(violations_at_error(loaded.duplicates, path),
                       LintViolation("L001", path, <<"Invalid YAML syntax.">>, 0)),
                [text |-> "1 error (invalid YAML)", clauses |-> <<>>], path)]
       ELSE IF loaded.error # ""
       THEN [error |-> loaded.error, msg |-> "unhashable type"]
       ELSE IF data.type # "dict"
       THEN [value |-> LintReport(violations, build_summary(violations), path)]
       ELSE LET all == mapping_checks(violations, data, content, path)
            IN [value |-> LintReport(all, build_summary(all), path)]

\* What a path that names no file holds (not p.exists()).
NoLintFile == [lines |-> <<>>, syntax |-> "absent", root |-> NoNode]

\* check_file(path)
CheckFile(p) ==
    /\ result' = [op |-> "check_file", path |-> p] @@
                   (IF templates[p] = NoLintFile
                    THEN [error |-> "LintError", msg |-> "File not found"]
                    ELSE check_content(templates[p], p))
    /\ UNCHANGED <<license_env, versioner_vars, gate_vars, chunk_vars, mr_vars>>

\* The composed pair of a line "key: value" of a top-level block mapping.
flat_pair(line) ==
    CASE line = "name: test" -> Pair(StrNode("name"), StrNode("test"))
      [] line = "name: MyPrompt" -> Pair(StrNode("name"), StrNode("MyPrompt"))
      [] line = "version: '1'" -> Pair(StrNode("version"), StrNode("1"))
      [] line = "prompt: Hello world" -> Pair(StrNode("prompt"), StrNode("Hello world"))
      [] line = "api_key: 'sk-ant-abcdefghijklmnop'" ->
           Pair(StrNode("api_key"), StrNode("sk-ant-abcdefghijklmnop"))
      [] line = "password: 'my_secret_password'" ->
           Pair(StrNode("password"), StrNode("my_secret_password"))

FlatLines == {"name: test", "name: MyPrompt", "version: '1'", "prompt: Hello world",
              "api_key: 'sk-ant-abcdefghijklmnop'", "password: 'my_secret_password'"}

Content(lines, root) == [lines |-> lines, syntax |-> "ok", root |-> root]
InvalidContent(lines) == [lines |-> lines, syntax |-> "ParserError", root |-> NoNode]

\* The files of at most n lines, each a "key: value" line of FlatLines: a
\* block mapping with one pair per line, the empty stream for no line.
RECURSIVE FlatLineSeqs(_)
FlatLineSeqs(n) ==
    IF n = 0 THEN {<<>>}
    ELSE FlatLineSeqs(n - 1) \cup
         {Append(t, l) : t \in {u \in FlatLineSeqs(n - 1) : Len(u) = n - 1}, l \in FlatLines}

FlatContent(lines) ==
    Content(lines, IF lines = <<>> THEN NoNode
                   ELSE MapNode([i \in 1..Len(lines) |-> flat_pair(lines[i])]))

\* a: {b: {c: ... {g: deep}}}, the chain of tests/test_lint_checker.py
RECURSIVE NestedChain(_)
NestedChain(keys) ==
    IF keys = <<>> THEN StrNode("deep")
    ELSE MapNode(<<Pair(StrNode(Head(keys)), NestedChain(Tail(keys)))>>)

\* Files with nesting, sequences, tags, flow keys and syntax errors.
StructuredContents ==
    { InvalidContent(<<"{{invalid: yaml: [">>),
      InvalidContent(<<"{{invalid">>),
      InvalidContent(<<"name: first", "name: second",
                       "api_key: 'sk-ant-abcdefghijklmnop'", "{{invalid">>),
      Content(<<"name: first", "name: second", "obj: !undefined x">>,
              MapNode(<<Pair(StrNode("name"), StrNode("first")),
                        Pair(StrNode("name"), StrNode("second")),
                        Pair(StrNode("obj"), UndefinedTagNode)>>)),
      Content(<<"- item1", "- item2">>, SeqNode(<<StrNode("item1"), StrNode("item2")>>)),
      Content(<<"just a string">>, StrNode("just a string")),
      Content(<<"- password: 'my_secret_password'">>,
              SeqNode(<<MapNode(<<Pair(StrNode("password"),
                                       StrNode("my_secret_password"))>>)>>)),
      Content(<<"- a: 1", "  a: 2">>,
              SeqNode(<<MapNode(<<Pair(StrNode("a"), IntNode("1")),
                                  Pair(StrNode("a"), IntNode("2"))>>)>>)),
      Content(<<"[a, b]: c">>,
              MapNode(<<Pair(SeqNode(<<StrNode("a"), StrNode("b")>>), StrNode("c"))>>)),
      Content(<<"- [a]: c">>,
              SeqNode(<<MapNode(<<Pair(SeqNode(<<StrNode("a")>>), StrNode("c"))>>)>>)),
      Content(<<"name: test", "version: '1'", "a:", "  b: 1", "  b: 2">>,
              MapNode(<<Pair(StrNode("name"), StrNode("test")),
                        Pair(StrNode("version"), StrNode("1")),
                        Pair(StrNode("a"),
                             MapNode(<<Pair(StrNode("b"), IntNode("1")),
                                       Pair(StrNode("b"), IntNode("2"))>>))>>)),
      Content(<<"name: test", "version: '1'", "a:", "  name: x">>,
              MapNode(<<Pair(StrNode("name"), StrNode("test")),
                        Pair(StrNode("version"), StrNode("1")),
                        Pair(StrNode("a"),
                             MapNode(<<Pair(StrNode("name"), StrNode("x"))>>))>>)),
      Content(<<"x: 1", "x: 2", "a:", "  x: 1", "  x: 2">>,
              MapNode(<<Pair(StrNode("x"), IntNode("1")),
                        Pair(StrNode("x"), IntNode("2")),
                        Pair(StrNode("a"),
                             MapNode(<<Pair(StrNode("x"), IntNode("1")),
                                       Pair(StrNode("x"), IntNode("2"))>>))>>)),
      Content(<<"name: test", "version: '1'", "x: 1", "x: 2", "x: 3", "x: 4">>,
              MapNode(<<Pair(StrNode("name"), StrNode("test")),
                        Pair(StrNode("version"), StrNode("1")),
                        Pair(StrNode("x"), IntNode("1")),
                        Pair(StrNode("x"), IntNode("2")),
                        Pair(StrNode("x"), IntNode("3")),
                        Pair(StrNode("x"), IntNode("4"))>>)),
      Content(<<"name: test", "version: '1'", "variables:", "  unused_var: hello",
                "prompt: No variables here">>,
              MapNode(<<Pair(StrNode("name"), StrNode("test")),
                        Pair(StrNode("version"), StrNode("1")),
                        Pair(StrNode("variables"),
                             MapNode(<<Pair(StrNode("unused_var"), StrNode("hello"))>>)),
                        Pair(StrNode("prompt"), StrNode("No variables here"))>>)),
      Content(<<"name: test", "version: '1'", "variables:", "  user: world",
                "prompt: Hello {{user}}">>,
              MapNode(<<Pair(StrNode("name"), StrNode("test")),
                        Pair(StrNode("version"), StrNode("1")),
                        Pair(StrNode("variables"),
                             MapNode(<<Pair(StrNode("user"), StrNode("world"))>>)),
                        Pair(StrNode("prompt"), StrNode("Hello {{user}}"))>>)),
      Content(<<"name: test", "version: '1'", "a:", "  b:", "    c:", "      d:",
                "        e:", "          f:", "            g: deep">>,
              MapNode(<<Pair(StrNode("name"), StrNode("test")),
                        Pair(StrNode("version"), StrNode("1")),
                        Pair(StrNode("a"),
                             NestedChain(<<"b", "c", "d", "e", "f", "g">>))>>)),
      Content(<<"name: MyPrompt", "name: MyPrompt", "api_key: 'sk-ant-abcdefghijklmnop'",
                "variables:", "  unused_var: hello", "a:", "  b:", "    c:", "      d:",
                "        e:", "          f:", "            g: deep">>,
              MapNode(<<Pair(StrNode("name"), StrNode("MyPrompt")),
                        Pair(StrNode("name"), StrNode("MyPrompt")),
                        Pair(StrNode("api_key"), StrNode("sk-ant-abcdefghijklmnop")),
                        Pair(StrNode("variables"),
                             MapNode(<<Pair(StrNode("unused_var"), StrNode("hello"))>>)),
                        Pair(StrNode("a"),
                             NestedChain(<<"b", "c", "d", "e", "f", "g">>))>>)),
      Content(<<"x: 1", "x: 2", "api_key: 'sk-ant-abcdefghijklmnop'",
                "variables:", "  unused_var: hello", "a:", "  b:", "    c:", "      d:",
                "        e:", "          f:", "            g: deep">>,
              MapNode(<<Pair(StrNode("x"), IntNode("1")),
                        Pair(StrNode("x"), IntNode("2")),
                        Pair(StrNode("api_key"), StrNode("sk-ant-abcdefghijklmnop")),
                        Pair(StrNode("variables"),
                             MapNode(<<Pair(StrNode("unused_var"), StrNode("hello"))>>)),
                        Pair(StrNode("a"),
                             NestedChain(<<"b", "c", "d", "e", "f", "g">>))>>)),
      Content(<<"name: 123", "secret: 'sk-abcdefghijklmnopqrstuvwxyz'",
                "key: 'sk-ant-abcdefghijklmnop'">>,
              MapNode(<<Pair(StrNode("name"), IntNode("123")),
                        Pair(StrNode("secret"), StrNode("sk-abcdefghijklmnopqrstuvwxyz")),
                        Pair(StrNode("key"), StrNode("sk-ant-abcdefghijklmnop"))>>)) }

LintContents == {FlatContent(lines) : lines \in FlatLineSeqs(MaxLines)} \cup StructuredContents

\* A directory holding one YAML file; the other path names no file.
InitLint ==
    /\ license_env = <<>>
    /\ \E content \in LintContents :
          templates = [p \in TemplatePaths |-> IF p.stem = "a" THEN content ELSE NoLintFile]
    /\ dirs = {}
    /\ store = [n \in Names |-> <<>>]
    /\ edits = 0
    /\ savers = <<>>
    /\ result = [op |-> "env"]
    /\ returned = [n \in Names |-> <<>>]
    /\ GateIdle
    /\ ChunkIdle

NextLint == \E p \in TemplatePaths : CheckFile(p)

SpecLint == InitLint /\ [][NextLint]_vars

(***************************************************************************)
(* Claims about check_file, checked under SpecLint.                        *)
(***************************************************************************)
\* The file a check_file step was given, what loading it gives, the report.
Checked == result.op = "check_file" /\ templates[result.path] # NoLintFile
CheckedContent == templates[result.path]
Loaded == get_single_data(CheckedContent)
RuleIds == [i \in 1..Len(result.value.violations) |-> result.value.violations[i].rule_id]
ViolationsOf(rule_id) ==
    SelectSeq(result.value.violations, LAMBDA v : v.rule_id = rule_id)

C18_NonMappingZeroViolations ==
    (Checked /\ Loaded.error = "" /\ CheckedContent.root.kind # "map") =>
        /\ ~raised(result)
        /\ result.value.violations = <<>>

\* The mapping nodes of a node graph.
RECURSIVE MapNodesOf(_)
MapNodesOf(node) ==
    LET below == IF node.kind = "map"
                 THEN Flatten([i \in 1..Len(node.items) |-> MapNodesOf(node.items[i].val)])
                 ELSE IF node.kind = "seq"
                 THEN Flatten([i \in 1..Len(node.items) |-> MapNodesOf(node.items[i])])
                 ELSE <<>>
    IN (IF node.kind = "map" THEN <<node>> ELSE <<>>) \o below

\* The key names written more than once in one mapping.
RepeatedKeys(node) ==
    {node.items[i].key.value : i \in {j \in 1..Len(node.items) :
        \E k \in 1..Len(node.items) : k # j /\ node.items[k].key = node.items[j].key}}

RECURSIVE SumOver(_)
SumOver(numbers) == IF numbers = <<>> THEN 0 ELSE Head(numbers) + SumOver(Tail(numbers))

\* C19: for a content that loads, check_file emits exactly one L004 error per
\* key name repeated within one mapping level, however often it is repeated,
\* its message naming the key; with no repeated key there is no L004.
C19_OneL004PerDuplicateKey ==
    (Checked /\ Loaded.error = "") =>
        LET maps == MapNodesOf(CheckedContent.root)
            l004 == ViolationsOf("L004")
        IN /\ Len(l004) = SumOver([i \in 1..Len(maps) |-> Cardinality(RepeatedKeys(maps[i]))])
           /\ \A i \in 1..Len(l004) :
                /\ l004[i].severity = "error"
                /\ \E j \in 1..Len(maps) : l004[i].message[2] \in RepeatedKeys(maps[j])
           /\ \A j \in 1..Len(maps) : \A k \in RepeatedKeys(maps[j]) :
                Cardinality({i \in 1..Len(l004) : l004[i].message[2] = k}) >= 1

\* C20: for a content that loads to a mapping, check_file emits exactly one
\* L006 error for each line that matches at least one secret pattern, never
\* two for one line, each carrying the line's 1-based number; a line that
\* matches no pattern gets none.
C20_OneL006PerSecretLine ==
    (Checked /\ Loaded.error = "" /\ Loaded.data.type = "dict") =>
        LET l006 == ViolationsOf("L006")
            lines == CheckedContent.lines
        IN /\ [i \in 1..Len(l006) |-> l006[i].line] =
                sorted({i \in 1..Len(lines) : secret_matches(lines[i]) # {}})
           /\ \A i \in 1..Len(l006) : l006[i].severity = "error"

\* C20 witness: of three lines the second matches two patterns and the third
\* one; the report holds one L006 for line 2 and one for line 3.
C20_Witness ==
    /\ Checked
    /\ CheckedContent.lines = <<"name: 123", "secret: 'sk-abcdefghijklmnopqrstuvwxyz'",
                                "key: 'sk-ant-abcdefghijklmnop'">>
    /\ secret_matches(CheckedContent.lines[2]) = {2, 5}
    /\ ~raised(result)
    /\ [i \in 1..Len(ViolationsOf("L006")) |-> ViolationsOf("L006")[i].line] = <<2, 3>>

\* The clause a summary gives for one severity: its count among the
\* violations and the severity word, with a plural s when the count exceeds 1.
CountOf(violations, sev) ==
    Cardinality({i \in 1..Len(violations) : violations[i].severity = sev})

ClauseOf(violations, sev) ==
    IF CountOf(violations, sev) = 0 THEN <<>>
    ELSE <<[count |-> CountOf(violations, sev),
            word |-> IF CountOf(violations, sev) > 1
                     THEN (CASE sev = "error" -> "errors"
                             [] sev = "warning" -> "warnings"
                             [] OTHER -> "infos")
                     ELSE sev]>>

\* C21: every report check_file returns has the summary "No issues found."
\* when it holds no violation, and otherwise the clauses of the severities
\* present among its violations, in the order error, warning, info, each with
\* its count and pluralized above 1, joined by commas and closed by a period
\* (a summary of clauses has no literal text of its own).
C21_SummaryIsSeverityClauses ==
    (Checked /\ ~raised(result)) =>
        LET violations == result.value.violations
        IN result.value.summary =
             IF violations = <<>> THEN [text |-> "No issues found.", clauses |-> <<>>]
             ELSE [text |-> "",
                   clauses |-> ClauseOf(violations, "error")
                               \o ClauseOf(violations, "warning")
                               \o ClauseOf(violations, "info")]

\* The reports C21 does hold for: those of contents that load.
C21_LoadedSummaryIsSeverityClauses ==
    (Checked /\ ~raised(result) /\ Loaded.error = "") => C21_SummaryIsSeverityClauses

\* C22: after any sequence of sequential saves, list_versions(name) does not
\* fail and returns exactly one entry per version a successful save of the
\* name returned, each with the path of its v<N>.yaml file, in ascending order
\* of version; for a name whose directory is absent it returns the empty list.
C22_ListIsSavedVersionsAscending ==
    result.op = "list" =>
        LET name == result.name
            saved == {returned[name][i] : i \in 1..Len(returned[name])}
            nums == sorted(saved)
        IN /\ ~raised(result)
           /\ Len(result.value) = Len(returned[name])
           /\ result.value = [i \in 1..Len(nums) |->
                                [version |-> nums[i], path |-> VersionPath(name, nums[i])]]
           /\ \A i \in 1..Len(result.value) : \A j \in 1..Len(result.value) :
                i < j => result.value[i].version < result.value[j].version
           /\ name \notin dirs => result.value = <<>>

\* C22 witness: after three saves of a name, list_versions returned the three
\* entries v1, v2, v3, while the other name has no directory.
C22_Witness ==
    /\ result.op = "list"
    /\ returned[result.name] = <<1, 2, 3>>
    /\ [i \in 1..3 |-> result.value[i].version] = <<1, 2, 3>>
    /\ \E n \in Names : n \notin dirs /\ listing(dirs, store, n) = <<>>

(***************************************************************************)
(* prompt/versioner.py, save_version run by several processes at once.     *)
(* The function takes no lock, so between two of its file-system accesses  *)
(* any other process may run.  One call is split at those accesses:        *)
(*   SaveEnter   src.exists() and prompt_dir.mkdir       (lines 28-34)     *)
(*   SaveScan    _get_version_numbers and max(...) + 1   (lines 37-38)     *)
(*   SaveCheck   get_license and the free-tier test      (lines 41-46)     *)
(*   SaveCopy    shutil.copy2 and the return             (lines 48-50)     *)
(* The processes share one environment and save two template files of the  *)
(* same stem, p/a.yaml and q/a.yaml, whose contents differ.                *)
(***************************************************************************)
Savers == 1..MaxSavers

ConcurrentPaths == { [dir |-> "p", stem |-> "a"], [dir |-> "q", stem |-> "a"],
                     [dir |-> "r", stem |-> "a"] }

\* A process between two calls: entered counts the calls it has made.
IdleSaver(entered) ==
    [pc |-> "idle", path |-> None, existing |-> {}, next_version |-> 0,
     entered |-> entered]

\* The save_version calls the processes 1..n have entered so far.
RECURSIVE saves_entered(_)
saves_entered(n) == IF n = 0 THEN 0 ELSE savers[n].entered + saves_entered(n - 1)

\* src.exists() fails: raise; otherwise mkdir(parents=True, exist_ok=True).
SaveEnter(i, p) ==
    /\ savers[i].pc \in {"idle", "done"}
    /\ saves_entered(MaxSavers) < MaxSaves
    /\ IF templates[p] = NoFile
       THEN /\ result' = [op |-> "save", path |-> p, error |-> "PromptError",
                          msg |-> "Template file not found", proc |-> i]
            /\ savers' = [savers EXCEPT ![i] = IdleSaver(@.entered + 1)]
            /\ UNCHANGED dirs
       ELSE /\ dirs' = dirs \cup {p.stem}
            /\ savers' = [savers EXCEPT ![i] = [IdleSaver(@.entered + 1) EXCEPT
                                                    !.pc = "scan", !.path = p]]
            /\ result' = [op |-> "env"]
    /\ UNCHANGED <<license_env, templates, store, edits, returned, gate_vars, chunk_vars,
                   mr_vars>>

\* existing = _get_version_numbers(prompt_dir); next_version = max(existing, default=0) + 1
SaveScan(i) ==
    /\ savers[i].pc = "scan"
    /\ LET existing == get_version_numbers(store, savers[i].path.stem)
       IN savers' = [savers EXCEPT ![i].pc = "check",
                                   ![i].existing = existing,
                                   ![i].next_version = next_version_of(existing)]
    /\ result' = [op |-> "env"]
    /\ UNCHANGED <<license_env, templates, dirs, store, edits, returned, gate_vars,
                   chunk_vars, mr_vars>>

\* license_info = get_license(); the free-tier test raises or lets the call go on.
SaveCheck(i) ==
    /\ savers[i].pc = "check"
    /\ IF over_free_limit(get_license(license_env), savers[i].next_version)
       THEN /\ savers' = [savers EXCEPT ![i].pc = "idle"]
            /\ result' = [op |-> "save", path |-> savers[i].path, error |-> "PromptError",
                          msg |-> "Free tier limited", proc |-> i]
       ELSE /\ savers' = [savers EXCEPT ![i].pc = "copy"]
            /\ result' = [op |-> "env"]
    /\ UNCHANGED <<license_env, templates, dirs, store, edits, returned, gate_vars,
                   chunk_vars, mr_vars>>

\* shutil.copy2(src, dest); return next_version, dest
SaveCopy(i) ==
    /\ savers[i].pc = "copy"
    /\ LET name == savers[i].path.stem
           next_version == savers[i].next_version
       IN /\ store' = [store EXCEPT
                         ![name] = copy2(@, next_version, templates[savers[i].path])]
          /\ returned' = [returned EXCEPT ![name] = Append(@, next_version)]
          /\ result' = [op |-> "save", path |-> savers[i].path,
                        value |-> <<next_version, VersionPath(name, next_version)>>,
                        proc |-> i]
    /\ savers' = [savers EXCEPT ![i].pc = "done"]
    /\ UNCHANGED <<license_env, templates, dirs, edits, gate_vars, chunk_vars, mr_vars>>

\* The snapshots earlier runs left: none, or v1..v4, or v1..v5.
InitConcurrentSave ==
    /\ license_env \in {<<>>, generate_key(None)}
    /\ templates = [p \in ConcurrentPaths |->
                      CASE p.dir = "p" -> "c1" [] p.dir = "q" -> "c2" [] OTHER -> NoFile]
    /\ \E k \in {0, 4, 5} :
          /\ store = [n \in Names |-> IF n = "a" THEN [v \in 1..k |-> "c1"] ELSE <<>>]
          /\ dirs = IF k = 0 THEN {} ELSE {"a"}
    /\ edits = 0
    /\ result = [op |-> "env"]
    /\ returned = [n \in Names |-> <<>>]
    /\ savers = [i \in Savers |-> IdleSaver(0)]
    /\ GateIdle
    /\ ChunkIdle

NextConcurrentSave ==
    \/ \E i \in Savers, p \in ConcurrentPaths : SaveEnter(i, p)
    \/ \E i \in Savers : SaveScan(i)
    \/ \E i \in Savers : SaveCheck(i)
    \/ \E i \in Savers : SaveCopy(i)

SpecConcurrentSave == InitConcurrentSave /\ [][NextConcurrentSave]_vars

(***************************************************************************)
(* Claims about concurrent saves, checked under SpecConcurrentSave.        *)
(***************************************************************************)
\* Process i is between its scan of the directory and its copy.
Scanned(i) == savers[i].pc \in {"check", "copy"}

\* C23: save_version holds no lock between its scan and its copy.  A process
\* that copies returns the number its own scan assigned, whatever was written
\* since, and leaves its own source content in v<N>.yaml, overwriting the
\* snapshot an earlier copy wrote there; every other process that scanned the
\* same directory listing before this copy holds the same number and keeps it.
C23_ConcurrentSavesShareNumberAndOverwrite ==
    [][\A i \in Savers : (savers[i].pc = "copy" /\ savers'[i].pc = "done") =>
          LET name == savers[i].path.stem
              v == savers[i].next_version
          IN /\ ~raised(result') /\ result'.proc = i /\ result'.value[1] = v
             /\ store'[name][v] = templates[savers[i].path]
             /\ \A j \in Savers \ {i} :
                   (Scanned(j) /\ savers[j].path.stem = name
                      /\ savers[j].existing = savers[i].existing) =>
                        /\ savers[j].next_version = v
                        /\ savers'[j] = savers[j]]_vars

\* C23 witness: two processes saved p/a.yaml and q/a.yaml, both scanned the
\* empty directory before either copied, both returned version 1, and v1.yaml
\* holds the content of the later copy, not that of the earlier one.
C23_Witness ==
    \E i \in Savers : \E j \in Savers \ {i} :
        /\ savers[i].pc = "done" /\ savers[j].pc = "done"
        /\ savers[i].existing = {} /\ savers[j].existing = {}
        /\ savers[i].next_version = 1 /\ savers[j].next_version = 1
        /\ returned["a"] = <<1, 1>>
        /\ result.op = "save" /\ ~raised(result) /\ result.proc = j /\ result.value[1] = 1
        /\ store["a"][1] = templates[savers[j].path]
        /\ store["a"][1] # templates[savers[i].path]
        /\ DOMAIN store["a"] = {1}

\* C30: when the processes are on FREE tier and the store holds no snapshot
\* numbered above 5 to begin with, no interleaving of their save_version calls
\* creates a snapshot numbered above 5 or returns a number above 5.
C30_FreeCeilingHoldsUnderConcurrency ==
    get_license(license_env).tier = FREE =>
        /\ \A n \in Names : \A v \in DOMAIN store[n] : v <= 5
        /\ \A n \in Names : \A k \in 1..Len(returned[n]) : returned[n][k] <= 5
        /\ \A i \in Savers : savers[i].pc = "copy" => savers[i].next_version <= 5

\* C30 witness: on FREE tier with v1..v4 present, two concurrent saves both
\* returned 5 and a third, which scanned afterwards, was refused; the
\* directory still ends at v5.
C30_Witness ==
    /\ get_license(license_env).tier = FREE
    /\ returned["a"] = <<5, 5>>
    /\ result.op = "save" /\ raised(result) /\ result.msg = "Free tier limited"
    /\ savers[result.proc].next_version = 6
    /\ DOMAIN store["a"] = 1..5

(***************************************************************************)
(* models.py, calculate_cost in the arithmetic the code uses.  The rates   *)
(* and the result are IEEE 754 doubles: each product, the sum and the      *)
(* quotient by 1_000_000 are rounded to the nearest double.  A double is   *)
(* written as the string Python's repr gives for it, which names it        *)
(* uniquely.  FloatCosts and FloatSums are tables of the values CPython    *)
(* computes for the token counts 0..4 and for the sums of two costs of     *)
(* calls with 0..2 tokens each.                                            *)
(***************************************************************************)
MaxTokens == 1        \* the most input or output tokens one generation call reports

\* <<model, input_tokens, output_tokens, repr of
\*   (input_tokens * input_rate + output_tokens * output_rate) / 1_000_000>>
FloatCosts ==
    {
      <<OPUS, 0, 0, "0.0">>, <<OPUS, 0, 1, "7.5e-05">>, <<OPUS, 0, 2, "0.00015">>,
      <<OPUS, 0, 3, "0.000225">>, <<OPUS, 0, 4, "0.0003">>, <<OPUS, 1, 0, "1.5e-05">>,
      <<OPUS, 1, 1, "9e-05">>, <<OPUS, 1, 2, "0.000165">>, <<OPUS, 1, 3, "0.00024">>,
      <<OPUS, 1, 4, "0.000315">>, <<OPUS, 2, 0, "3e-05">>, <<OPUS, 2, 1, "0.000105">>,
      <<OPUS, 2, 2, "0.00018">>, <<OPUS, 2, 3, "0.000255">>, <<OPUS, 2, 4, "0.00033">>,
      <<OPUS, 3, 0, "4.5e-05">>, <<OPUS, 3, 1, "0.00012">>, <<OPUS, 3, 2, "0.000195">>,
      <<OPUS, 3, 3, "0.00027">>, <<OPUS, 3, 4, "0.000345">>, <<OPUS, 4, 0, "6e-05">>,
      <<OPUS, 4, 1, "0.000135">>, <<OPUS, 4, 2, "0.00021">>, <<OPUS, 4, 3, "0.000285">>,
      <<OPUS, 4, 4, "0.00036">>, <<SONNET, 0, 0, "0.0">>, <<SONNET, 0, 1, "1.5e-05">>,
      <<SONNET, 0, 2, "3e-05">>, <<SONNET, 0, 3, "4.5e-05">>, <<SONNET, 0, 4, "6e-05">>,
      <<SONNET, 1, 0, "3e-06">>, <<SONNET, 1, 1, "1.8e-05">>, <<SONNET, 1, 2, "3.3e-05">>,
      <<SONNET, 1, 3, "4.8e-05">>, <<SONNET, 1, 4, "6.3e-05">>, <<SONNET, 2, 0, "6e-06">>,
      <<SONNET, 2, 1, "2.1e-05">>, <<SONNET, 2, 2, "3.6e-05">>, <<SONNET, 2, 3, "5.1e-05">>,
      <<SONNET, 2, 4, "6.6e-05">>, <<SONNET, 3, 0, "9e-06">>, <<SONNET, 3, 1, "2.4e-05">>,
      <<SONNET, 3, 2, "3.9e-05">>, <<SONNET, 3, 3, "5.4e-05">>, <<SONNET, 3, 4, "6.9e-05">>,
      <<SONNET, 4, 0, "1.2e-05">>, <<SONNET, 4, 1, "2.7e-05">>, <<SONNET, 4, 2, "4.2e-05">>,
      <<SONNET, 4, 3, "5.7e-05">>, <<SONNET, 4, 4, "7.2e-05">>, <<HAIKU, 0, 0, "0.0">>,
      <<HAIKU, 0, 1, "4e-06">>, <<HAIKU, 0, 2, "8e-06">>, <<HAIKU, 0, 3, "1.2e-05">>,
      <<HAIKU, 0, 4, "1.6e-05">>, <<HAIKU, 1, 0, "8.000000000000001e-07">>, <<HAIKU, 1, 1, "4.8e-06">>,
      <<HAIKU, 1, 2, "8.8e-06">>, <<HAIKU, 1, 3, "1.2800000000000001e-05">>, <<HAIKU, 1, 4, "1.6800000000000002e-05">>,
      <<HAIKU, 2, 0, "1.6000000000000001e-06">>, <<HAIKU, 2, 1, "5.6e-06">>, <<HAIKU, 2, 2, "9.6e-06">>,
      <<HAIKU, 2, 3, "1.36e-05">>, <<HAIKU, 2, 4, "1.76e-05">>, <<HAIKU, 3, 0, "2.4000000000000003e-06">>,
      <<HAIKU, 3, 1, "6.4000000000000006e-06">>, <<HAIKU, 3, 2, "1.04e-05">>, <<HAIKU, 3, 3, "1.4400000000000001e-05">>,
      <<HAIKU, 3, 4, "1.84e-05">>, <<HAIKU, 4, 0, "3.2000000000000003e-06">>, <<HAIKU, 4, 1, "7.2000000000000005e-06">>,
      <<HAIKU, 4, 2, "1.12e-05">>, <<HAIKU, 4, 3, "1.5199999999999998e-05">>, <<HAIKU, 4, 4, "1.92e-05">> }

\* <<x, y, repr of x + y>>; the addition of doubles is commutative.
FloatSums ==
    {
      <<"0.0", "0.0", "0.0">>, <<"0.0", "8.000000000000001e-07", "8.000000000000001e-07">>,
      <<"0.0", "1.6000000000000001e-06", "1.6000000000000001e-06">>, <<"0.0", "3e-06", "3e-06">>,
      <<"0.0", "4e-06", "4e-06">>, <<"0.0", "4.8e-06", "4.8e-06">>,
      <<"0.0", "5.6e-06", "5.6e-06">>, <<"0.0", "6e-06", "6e-06">>,
      <<"0.0", "8e-06", "8e-06">>, <<"0.0", "8.8e-06", "8.8e-06">>,
      <<"0.0", "9.6e-06", "9.6e-06">>, <<"0.0", "1.5e-05", "1.5e-05">>,
      <<"0.0", "1.8e-05", "1.8e-05">>, <<"0.0", "2.1e-05", "2.1e-05">>,
      <<"0.0", "3e-05", "3e-05">>, <<"0.0", "3.3e-05", "3.3e-05">>,
      <<"0.0", "3.6e-05", "3.6e-05">>, <<"0.0", "7.5e-05", "7.5e-05">>,
      <<"0.0", "9e-05", "9e-05">>, <<"0.0", "0.000105", "0.000105">>,
      <<"0.0", "0.00015", "0.00015">>, <<"0.0", "0.000165", "0.000165">>,
      <<"0.0", "0.00018", "0.00018">>, <<"8.000000000000001e-07", "8.000000000000001e-07", "1.6000000000000001e-06">>,
      <<"8.000000000000001e-07", "8e-06", "8.8e-06">>, <<"8.000000000000001e-07", "8.8e-06", "9.600000000000001e-06">>,
      <<"8.000000000000001e-07", "9.6e-06", "1.04e-05">>, <<"1.6000000000000001e-06", "8.000000000000001e-07", "2.4000000000000003e-06">>,
      <<"1.6000000000000001e-06", "1.6000000000000001e-06", "3.2000000000000003e-06">>, <<"1.6000000000000001e-06", "4e-06", "5.6e-06">>,
      <<"1.6000000000000001e-06", "4.8e-06", "6.4e-06">>, <<"1.6000000000000001e-06", "5.6e-06", "7.2e-06">>,
      <<"1.6000000000000001e-06", "8e-06", "9.6e-06">>, <<"1.6000000000000001e-06", "8.8e-06", "1.04e-05">>,
      <<"1.6000000000000001e-06", "9.6e-06", "1.12e-05">>, <<"3e-06", "3e-06", "6e-06">>,
      <<"3e-06", "6e-06", "9e-06">>, <<"4e-06", "8.000000000000001e-07", "4.8e-06">>,
      <<"4e-06", "4e-06", "8e-06">>, <<"4e-06", "5.6e-06", "9.6e-06">>,
      <<"4e-06", "8e-06", "1.2e-05">>, <<"4e-06", "8.8e-06", "1.28e-05">>,
      <<"4e-06", "9.6e-06", "1.3599999999999999e-05">>, <<"4.8e-06", "8.000000000000001e-07", "5.6e-06">>,
      <<"4.8e-06", "4e-06", "8.8e-06">>, <<"4.8e-06", "4.8e-06", "9.6e-06">>,
      <<"4.8e-06", "5.6e-06", "1.0399999999999999e-05">>, <<"4.8e-06", "8e-06", "1.28e-05">>,
      <<"4.8e-06", "8.8e-06", "1.36e-05">>, <<"4.8e-06", "9.6e-06", "1.44e-05">>,
      <<"5.6e-06", "8.000000000000001e-07", "6.4e-06">>, <<"5.6e-06", "5.6e-06", "1.12e-05">>,
      <<"5.6e-06", "8e-06", "1.3599999999999999e-05">>, <<"5.6e-06", "8.8e-06", "1.4400000000000001e-05">>,
      <<"5.6e-06", "9.6e-06", "1.52e-05">>, <<"6e-06", "6e-06", "1.2e-05">>,
      <<"8e-06", "8e-06", "1.6e-05">>, <<"8e-06", "9.6e-06", "1.76e-05">>,
      <<"8.8e-06", "8e-06", "1.6800000000000002e-05">>, <<"8.8e-06", "8.8e-06", "1.76e-05">>,
      <<"8.8e-06", "9.6e-06", "1.84e-05">>, <<"9.6e-06", "9.6e-06", "1.92e-05">>,
      <<"1.5e-05", "3e-06", "1.8e-05">>, <<"1.5e-05", "6e-06", "2.1000000000000002e-05">>,
      <<"1.5e-05", "1.5e-05", "3e-05">>, <<"1.5e-05", "1.8e-05", "3.3e-05">>,
      <<"1.5e-05", "2.1e-05", "3.6e-05">>, <<"1.5e-05", "3e-05", "4.5e-05">>,
      <<"1.5e-05", "3.3e-05", "4.8e-05">>, <<"1.5e-05", "3.6e-05", "5.1e-05">>,
      <<"1.5e-05", "7.5e-05", "8.999999999999999e-05">>, <<"1.5e-05", "9e-05", "0.000105">>,
      <<"1.8e-05", "3e-06", "2.1000000000000002e-05">>, <<"1.8e-05", "6e-06", "2.4e-05">>,
      <<"1.8e-05", "1.8e-05", "3.6e-05">>, <<"1.8e-05", "2.1e-05", "3.9e-05">>,
      <<"1.8e-05", "3e-05", "4.8e-05">>, <<"1.8e-05", "3.3e-05", "5.1000000000000006e-05">>,
      <<"1.8e-05", "3.6e-05", "5.4e-05">>, <<"2.1e-05", "3e-06", "2.4e-05">>,
      <<"2.1e-05", "6e-06", "2.7e-05">>, <<"2.1e-05", "2.1e-05", "4.2e-05">>,
      <<"2.1e-05", "3e-05", "5.1e-05">>, <<"2.1e-05", "3.3e-05", "5.4e-05">>,
      <<"2.1e-05", "3.6e-05", "5.7e-05">>, <<"3e-05", "3e-06", "3.3e-05">>,
      <<"3e-05", "6e-06", "3.6e-05">>, <<"3e-05", "3e-05", "6e-05">>,
      <<"3e-05", "7.5e-05", "0.00010499999999999999">>, <<"3e-05", "9e-05", "0.00012">>,
      <<"3.3e-05", "3e-06", "3.6e-05">>, <<"3.3e-05", "6e-06", "3.9e-05">>,
      <<"3.3e-05", "3e-05", "6.3e-05">>, <<"3.3e-05", "3.3e-05", "6.6e-05">>,
      <<"3.3e-05", "3.6e-05", "6.9e-05">>, <<"3.6e-05", "3e-06", "3.9e-05">>,
      <<"3.6e-05", "6e-06", "4.2000000000000004e-05">>, <<"3.6e-05", "3e-05", "6.6e-05">>,
      <<"3.6e-05", "3.6e-05", "7.2e-05">>, <<"7.5e-05", "7.5e-05", "0.00015">>,
      <<"7.5e-05", "9e-05", "0.000165">>, <<"9e-05", "9e-05", "0.00018">>,
      <<"0.000105", "1.5e-05", "0.00012">>, <<"0.000105", "3e-05", "0.000135">>,
      <<"0.000105", "7.5e-05", "0.00017999999999999998">>, <<"0.000105", "9e-05", "0.00019500000000000002">>,
      <<"0.000105", "0.000105", "0.00021">>, <<"0.000105", "0.00015", "0.000255">>,
      <<"0.000105", "0.000165", "0.00027">>, <<"0.000105", "0.00018", "0.000285">>,
      <<"0.00015", "1.5e-05", "0.000165">>, <<"0.00015", "3e-05", "0.00017999999999999998">>,
      <<"0.00015", "7.5e-05", "0.000225">>, <<"0.00015", "9e-05", "0.00023999999999999998">>,
      <<"0.00015", "0.00015", "0.0003">>, <<"0.00015", "0.000165", "0.00031499999999999996">>,
      <<"0.00015", "0.00018", "0.00033">>, <<"0.000165", "1.5e-05", "0.00018">>,
      <<"0.000165", "3e-05", "0.000195">>, <<"0.000165", "7.5e-05", "0.00023999999999999998">>,
      <<"0.000165", "9e-05", "0.000255">>, <<"0.000165", "0.000165", "0.00033">>,
      <<"0.000165", "0.00018", "0.00034500000000000004">>, <<"0.00018", "1.5e-05", "0.00019500000000000002">>,
      <<"0.00018", "3e-05", "0.00021">>, <<"0.00018", "7.5e-05", "0.000255">>,
      <<"0.00018", "9e-05", "0.00027">>, <<"0.00018", "0.00018", "0.00036">> }

\* calculate_cost as a double: 0.0 for a model without rates.
calculate_cost_float(model, input_tokens, output_tokens) ==
    IF model \notin DOMAIN MODEL_COSTS THEN "0.0"
    ELSE (CHOOSE t \in FloatCosts :
            t[1] = model /\ t[2] = input_tokens /\ t[3] = output_tokens)[4]

\* x + y on doubles
float_add(x, y) ==
    (CHOOSE t \in FloatSums : (t[1] = x /\ t[2] = y) \/ (t[1] = y /\ t[2] = x))[3]

(***************************************************************************)
(* The cost arithmetic of a summary made of two generation calls: each     *)
(* call's PromptResult carries the cost of its own tokens (client.py:69),  *)
(* map_reduce_summarize adds the token counts up (chunker.py:79-80, 96-97) *)
(* and computes the cost once from the totals (chunker.py:106).            *)
(***************************************************************************)
CostModels == {OPUS, SONNET, HAIKU, "unknown-model"}

CostUsages == [input_tokens : 0..MaxTokens, output_tokens : 0..MaxTokens]

\* A generation call returns the usage u: its cost, and the running totals.
CostCall(u) ==
    /\ mr_pc \in {"map", "reduce"}
    /\ LET cost == calculate_cost_float(mr_model, u.input_tokens, u.output_tokens)
           res == [input_tokens |-> u.input_tokens, output_tokens |-> u.output_tokens,
                   cost_usd |-> cost]
       IN /\ mr_usages' = Append(mr_usages, res)
          /\ result' = [op |-> "send_message", value |-> res]
    /\ total_input' = total_input + u.input_tokens
    /\ total_output' = total_output + u.output_tokens
    /\ mr_pc' = IF mr_pc = "map" THEN "reduce" ELSE "total"
    /\ UNCHANGED <<license_env, versioner_vars, gate_vars, chunk_vars, mr_text, mr_model,
                   mr_word_count, mr_chunks, chunk_summaries>>

\* total_cost = calculate_cost(model, total_input, total_output)
CostTotal ==
    /\ mr_pc = "total"
    /\ result' = [op |-> "calculate_cost",
                  value |-> calculate_cost_float(mr_model, total_input, total_output)]
    /\ mr_pc' = "done"
    /\ UNCHANGED <<license_env, versioner_vars, gate_vars, chunk_vars, mr_text, mr_model,
                   mr_word_count, mr_chunks, total_input, total_output, chunk_summaries,
                   mr_usages>>

InitCost ==
    /\ license_env = <<>>
    /\ templates = [p \in TemplatePaths |-> NoFile]
    /\ dirs = {}
    /\ store = [n \in Names |-> <<>>]
    /\ edits = 0
    /\ savers = <<>>
    /\ result = [op |-> "env"]
    /\ returned = [n \in Names |-> <<>>]
    /\ GateIdle
    /\ CHUNK_CHAR_SIZE = DEFAULT_CHUNK_CHAR_SIZE
    /\ OVERLAP_CHARS = DEFAULT_OVERLAP_CHARS
    /\ ck_text = <<>> /\ ck_size = 0 /\ ck_overlap = 0
    /\ ck_start = 0 /\ ck_chunks = <<>> /\ ck_offsets = <<>> /\ ck_pc = "idle"
    /\ mr_text = <<>> /\ mr_word_count = 0 /\ mr_chunks = <<>>
    /\ mr_model \in CostModels
    /\ total_input = 0 /\ total_output = 0
    /\ chunk_summaries = <<>> /\ mr_usages = <<>>
    /\ mr_pc = "map"

NextCost ==
    \/ \E u \in CostUsages : CostCall(u)
    \/ CostTotal

SpecCost == InitCost /\ [][NextCost]_vars

\* C24: calculate_cost is exactly 0 for an unknown model and for (0, 0) tokens
\* on a known one, and the cost computed once from the total tokens of the
\* calls equals the sum of the costs of the individual calls.
C24_CostOfTotalIsSumOfCosts ==
    /\ \A k \in 1..Len(mr_usages) :
          (mr_model \notin {OPUS, SONNET, HAIKU}
             \/ (mr_usages[k].input_tokens = 0 /\ mr_usages[k].output_tokens = 0)) =>
                mr_usages[k].cost_usd = "0.0"
    /\ result.op = "calculate_cost" =>
          result.value = float_add(mr_usages[1].cost_usd, mr_usages[2].cost_usd)

\* What does hold: the zero cases, and additivity whenever one of the two
\* calls reported no tokens.
C24_ZeroCasesAndTrivialSums ==
    /\ \A k \in 1..Len(mr_usages) :
          (mr_model \notin {OPUS, SONNET, HAIKU}
             \/ (mr_usages[k].input_tokens = 0 /\ mr_usages[k].output_tokens = 0)) =>
                mr_usages[k].cost_usd = "0.0"
    /\ (result.op = "calculate_cost"
          /\ \E k \in 1..2 : mr_usages[k].cost_usd = "0.0") =>
             result.value = float_add(mr_usages[1].cost_usd, mr_usages[2].cost_usd)

\* The generation call c is the map call for the chunk, the reduce call.
IsMapCall(c, chunk) ==
    c.system = "CHUNK_SUMMARIZE_PROMPT" /\ c.content = chunk /\ c.max_tokens = 2048

IsReduceCall(c) == c.system = "REDUCE_PROMPT" /\ c.max_tokens = 4096

\* C26: map_reduce_summarize issues its generation calls one after the other:
\* the k-th call is the map call for chunk k, each issued when all earlier
\* calls have returned, and after the n map calls have returned comes one
\* reduce call, so a run that returns has issued exactly n + 1 calls; the
\* reduce input lists the section summaries labeled 1..n in chunk order.
C26_MapCallsInOrderThenOneReduce ==
    /\ [](mr_pc # "call" =>
            LET n == Len(mr_chunks)
            IN /\ Len(sent) <= n + 1
               /\ \A k \in 1..Len(sent) :
                    /\ k <= n => IsMapCall(sent[k], mr_chunks[k])
                    /\ k = n + 1 =>
                         /\ IsReduceCall(sent[k])
                         /\ Len(sent[k].content) = n
                         /\ \A i \in 1..n :
                              /\ sent[k].content[i].label = i
                              /\ sent[k].content[i].summary = chunk_summaries[i]
               /\ mr_pc = "done" => Len(sent) = n + 1 /\ Len(mr_usages) = n + 1)
    /\ [][sent' # sent =>
            /\ Len(sent') = Len(sent) + 1
            /\ SubSeq(sent', 1, Len(sent)) = sent
            /\ Len(mr_usages) = Len(sent)
            /\ Len(chunk_summaries) = Min({Len(sent), Len(mr_chunks)})
            /\ IsReduceCall(sent'[Len(sent')]) =>
                 /\ Len(sent) = Len(mr_chunks)
                 /\ Len(chunk_summaries) = Len(mr_chunks)
            /\ \A i \in 1..Len(chunk_summaries) :
                 chunk_summaries'[i] = chunk_summaries[i]]_vars

\* C26 witness: a document of three chunks was summarized with four calls,
\* the fourth the reduce call over sections 1, 2, 3; the map calls got
\* different replies and the chunks are not all the same.
C26_Witness ==
    /\ mr_pc = "done"
    /\ Len(mr_chunks) = 3
    /\ Len(sent) = 4
    /\ [i \in 1..3 |-> sent[4].content[i].label] = <<1, 2, 3>>
    /\ mr_usages[1] # mr_usages[2]
    /\ mr_chunks = << <<"a", "b">>, <<"b", "c">>, <<"c", "d">> >>
    /\ [k \in 1..3 |-> sent[k].content] = mr_chunks

\* The place of a rule in the order check_file runs its checks in.
RuleRank(rule_id) ==
    CASE rule_id = "L004" -> 1 [] rule_id = "L002" -> 2 [] rule_id = "L003" -> 3
      [] rule_id = "L005" -> 4 [] rule_id = "L006" -> 5 [] rule_id = "L007" -> 6
      [] rule_id = "L008" -> 7 [] OTHER -> 0

\* C28: for a content that loads to a mapping, the violations of the report
\* are grouped by rule in the order L004, L002, L003, L005, L006, L007, L008,
\* and the violations of each rule are those its check gives on the document
\* alone, whatever the other checks found.
C28_ChecksInFixedOrderAndIndependent ==
    (Checked /\ Loaded.error = "" /\ Loaded.data.type = "dict") =>
        LET data == Loaded.data
            path == result.path
        IN /\ ~raised(result)
           /\ \A i \in 1..Len(RuleIds) : RuleRank(RuleIds[i]) >= 1
           /\ \A i \in 1..Len(RuleIds) : \A j \in 1..Len(RuleIds) :
                i < j => RuleRank(RuleIds[i]) <= RuleRank(RuleIds[j])
           /\ ViolationsOf("L004") = duplicate_violations(Loaded.duplicates, path)
           /\ ViolationsOf("L002") = check_missing_field(data, "name", "L002", path)
           /\ ViolationsOf("L003") = check_missing_field(data, "version", "L003", path)
           /\ ViolationsOf("L005") = check_unused_variables(data, path)
           /\ ViolationsOf("L006") = check_hardcoded_secrets(CheckedContent.lines, path)
           /\ ViolationsOf("L007") = check_naming_convention(data, path)
           /\ ViolationsOf("L008") = check_deep_nesting(data, path)

\* C28 witness: one file gave violations of six rules, in the order L004,
\* L003, L005, L006, L007, L008 (a name is present, so no L002).
C28_Witness ==
    /\ Checked /\ ~raised(result)
    /\ Loaded.error = "" /\ Loaded.data.type = "dict"
    /\ RuleIds = <<"L004", "L003", "L005", "L006", "L007", "L008">>

====
